---- MODULE Spec2Model ----
(***************************************************************************)
(* Model of the quiz generation / grading pipeline of quizgenix:           *)
(*   quiz/ai_services.py  credential guard, prompt -> model -> parser      *)
(*   views.py             create_quiz, create_quiz_from_topic, submit_quiz *)
(*   quiz/models.py       storage schema (cascades, uniqueness)            *)
(*                                                                         *)
(* Text is modelled as a sequence of lexical tokens.  Separators (commas,  *)
(* colons, white space) are implied between tokens, so a token sequence is *)
(* valid JSON exactly when it follows the grammar                          *)
(*   value  ::= ATOM | "[" value* "]" | "{" member* "}"                    *)
(*   member ::= MEMBER | KEY value                                         *)
(* Python values are tagged records; a call returns Return(v) or Raise(e). *)
(***************************************************************************)
EXTENDS Integers, Sequences, FiniteSets, TLC

VARIABLES
    documents,   \* PDFDocument rows
    quizzes,     \* Quiz rows
    questions,   \* Question rows
    answers,     \* UserAnswer rows
    results,     \* Result rows
    next_id,     \* auto-increment primary keys, one counter per table
    settings,    \* django settings and environment: where the API key comes from
    response,    \* what the last request did: view, outcome, model calls
    last_selected, \* history: latest non-empty selection POSTed per <<user, question id>>
    raw_text,    \* the text handed to a parser (parser specification)
    parse_out,   \* what the parser did with raw_text (parser specification)
    inflight,    \* submit_quiz requests in progress, statement by statement;
                 \* refused: an INSERT of the request was refused (history)
    counts,      \* the counts handed to the percentage computations
                 \* (percentage specification)
    accounts,    \* auth User rows with their UserProfile, by username
    session      \* django sessions, one per browser: the user logged in ("" for
                 \* none) and last_result_id (0 when the key is absent)

vars == <<documents, quizzes, questions, answers, results, next_id, settings, response,
          last_selected, raw_text, parse_out, inflight, counts, accounts, session>>

storage == <<documents, quizzes, questions, answers, results, next_id>>

----------------------------------------------------------------------------
(* Bounds *)

MaxTok == 4        \* longest enumerated raw text, in tokens
MaxDocs == 1       \* PDFDocument ids handed out
MaxQuizzes == 1    \* Quiz ids handed out
MaxResults == 2    \* Result ids handed out
MaxTotal == 32     \* largest number of questions handed to the percentage computations

----------------------------------------------------------------------------
(* Python values *)

None == [t |-> "None"]
JNum == [t |-> "num"]
JStr(s) == [t |-> "str", s |-> s]
JArr(items) == [t |-> "arr", items |-> items]
JObj(m) == [t |-> "obj", m |-> m]

Return(v) == [kind |-> "return", value |-> v]
Raise(e) == [kind |-> "raise", exc |-> e]

\* dict.get(key, default)
Get(d, key, default) == IF key \in DOMAIN d.m THEN d.m[key] ELSE default

\* truthiness of a Python value (if x: / not x)
Truthy(v) ==
    CASE v.t = "None" -> FALSE
      [] v.t = "str" -> v.s # ""
      [] v.t = "arr" -> Len(v.items) > 0
      [] v.t = "obj" -> DOMAIN v.m # {}
      [] OTHER -> TRUE

----------------------------------------------------------------------------
(* Tokens *)

FullOptions ==
    JObj("A" :> JStr("a") @@ "B" :> JStr("b") @@ "C" :> JStr("c") @@ "D" :> JStr("d"))

\* question object literals, one token each
QuestionAtoms == {"qA", "qx", "qE", "q0", "qT", "qO", "qC"}

AtomToks == QuestionAtoms \cup {"n", "null"}

AtomValue(tk) ==
    CASE tk = "qA" -> JObj("question" :> JStr("Q") @@ "options" :> FullOptions
                           @@ "correct_answer" :> JStr("A") @@ "explanation" :> JStr("E"))
      [] tk = "qx" -> JObj("question" :> JStr("Q") @@ "options" :> JStr("none"))
      [] tk = "qE" -> JObj("question" :> JStr("Q") @@ "options" :> JObj("A" :> JStr("a"))
                           @@ "correct_answer" :> JStr("E"))
      [] tk = "q0" -> JObj(<<>>)
      [] tk = "qT" -> JObj("options" :> FullOptions @@ "correct_answer" :> JStr("B")
                           @@ "explanation" :> JStr("E"))
      [] tk = "qO" -> JObj("question" :> JStr("Q") @@ "correct_answer" :> JStr("B"))
      [] tk = "qC" -> JObj("question" :> JStr("Q") @@ "options" :> FullOptions)
      [] tk = "n" -> JNum
      [] tk = "null" -> None

\* "key": tokens, followed by a value
KeyToks == {"k:"}

KeyName(tk) == CASE tk = "k:" -> "questions"

\* complete "key": value members, one token each
\*   S  W  G   the three feedback fields with non-empty text
\*   S0        "strength_analysis": ""
\*   Wn        "weakness_analysis": null
\*   K[]       "questions": "a[b]"   (a string holding both brackets)
MemberToks == {"S", "W", "G", "S0", "Wn", "K[]"}

MemberKey(tk) ==
    CASE tk \in {"S", "S0"} -> "strength_analysis"
      [] tk \in {"W", "Wn"} -> "weakness_analysis"
      [] tk = "G" -> "suggestions"
      [] tk = "K[]" -> "questions"

MemberVal(tk) ==
    CASE tk = "S" -> JStr("strong")
      [] tk = "W" -> JStr("weak")
      [] tk = "G" -> JStr("study")
      [] tk = "S0" -> JStr("")
      [] tk = "Wn" -> None
      [] tk = "K[]" -> JStr("a[b]")

\* the characters "[", "]", "{", "}" a token's text contains
HasChar(tk, ch) ==
    \/ tk = ch
    \/ tk = "K[]" /\ ch \in {"[", "]"}
    \/ tk \in QuestionAtoms /\ ch \in {"{", "}"}

\* the first occurrence of ch in the token is the token's first character
StartsWith(tk, ch) == tk = ch \/ (tk \in QuestionAtoms /\ ch = "{")

\* the last occurrence of ch in the token is the token's last character
EndsWith(tk, ch) == tk = ch \/ (tk \in QuestionAtoms /\ ch = "}")

----------------------------------------------------------------------------
(* json.loads *)

JSONDecodeError == [ok |-> FALSE]
Decoded(v, next) == [ok |-> TRUE, v |-> v, next |-> next]

RECURSIVE ParseValue(_, _), ParseItems(_, _, _), ParseMembers(_, _, _)

ParseValue(toks, i) ==
    IF i > Len(toks) THEN JSONDecodeError
    ELSE IF toks[i] \in AtomToks THEN Decoded(AtomValue(toks[i]), i + 1)
    ELSE IF toks[i] = "[" THEN ParseItems(toks, i + 1, <<>>)
    ELSE IF toks[i] = "{" THEN ParseMembers(toks, i + 1, <<>>)
    ELSE JSONDecodeError

ParseItems(toks, i, acc) ==
    IF i > Len(toks) THEN JSONDecodeError
    ELSE IF toks[i] = "]" THEN Decoded(JArr(acc), i + 1)
    ELSE LET r == ParseValue(toks, i)
         IN IF r.ok THEN ParseItems(toks, r.next, Append(acc, r.v))
            ELSE JSONDecodeError

\* a repeated key keeps its last value
ParseMembers(toks, i, m) ==
    IF i > Len(toks) THEN JSONDecodeError
    ELSE IF toks[i] = "}" THEN Decoded(JObj(m), i + 1)
    ELSE IF toks[i] \in MemberToks
         THEN ParseMembers(toks, i + 1, (MemberKey(toks[i]) :> MemberVal(toks[i])) @@ m)
    ELSE IF toks[i] \in KeyToks
         THEN LET r == ParseValue(toks, i + 1)
              IN IF r.ok THEN ParseMembers(toks, r.next, (KeyName(toks[i]) :> r.v) @@ m)
                 ELSE JSONDecodeError
    ELSE JSONDecodeError

json_loads(toks) ==
    LET r == ParseValue(toks, 1)
    IN IF r.ok /\ r.next = Len(toks) + 1 THEN r ELSE JSONDecodeError

----------------------------------------------------------------------------
(* re.search(r'\[[\s\S]*\]', text) and re.search(r'\{[\s\S]*\}', text):    *)
(* leftmost opening character to the last closing character after it.      *)
(* aligned is FALSE when the match starts or ends inside a token, that is  *)
(* inside a string literal.                                                *)

NoMatch == [found |-> FALSE]

re_search(toks, open, close) ==
    LET opens == {i \in 1..Len(toks) : HasChar(toks[i], open)}
    IN IF opens = {} THEN NoMatch
       ELSE LET first == CHOOSE i \in opens : \A j \in opens : i <= j
                closes == {j \in first..Len(toks) : HasChar(toks[j], close)}
            IN IF closes = {} THEN NoMatch
               ELSE LET last == CHOOSE j \in closes : \A k \in closes : k <= j
                    IN [found |-> TRUE,
                        group |-> SubSeq(toks, first, last),
                        aligned |-> StartsWith(toks[first], open) /\ EndsWith(toks[last], close)]

\* json.loads(match.group()): a match cut out of the middle of a string
\* literal starts with a bare word or ends in an unterminated string
json_loads_group(m) == IF m.aligned THEN json_loads(m.group) ELSE JSONDecodeError

----------------------------------------------------------------------------
(* quiz/ai_services.py: credential guard *)

PLACEHOLDER == "your_actual_gemini_api_key_here"

\* Python's  a or b
Or(a, b) == IF Truthy(a) THEN a ELSE b

\* the three places the key is looked up in, each None or a string
resolve_api_key(cfg) == Or(Or(cfg.GOOGLE_API_KEY, cfg.GEMINI_API_KEY), cfg.env_GOOGLE_API_KEY)

\* the check without the comparison with the placeholder
api_key_rejected_no_placeholder(api_key) == ~Truthy(api_key)

api_key_rejected(api_key) == ~Truthy(api_key) \/ api_key.s = PLACEHOLDER

\* QuizGenerator.__init__
QuizGenerator_init(cfg) ==
    LET api_key == resolve_api_key(cfg)
    IN IF api_key_rejected(api_key) THEN Raise("APIKeyError")
       ELSE Return([api_key |-> api_key, model |-> "gemini-2.5-flash"])

\* PerformanceAnalyzer.__init__
PerformanceAnalyzer_init(cfg) ==
    LET api_key == resolve_api_key(cfg)
    IN IF api_key_rejected(api_key) THEN Raise("APIKeyError")
       ELSE Return([api_key |-> api_key, model |-> "gemini-1.5-flash"])

----------------------------------------------------------------------------
(* quiz/ai_services.py: response parsers *)

\* parse_quiz_response with the whole text tried again after the bracketed
\* substring failed to decode
parse_quiz_response_retry(text) ==
    LET m == re_search(text, "[", "]")
        g == IF m.found THEN json_loads_group(m) ELSE JSONDecodeError
    IN IF g.ok THEN Return(g.v)
       ELSE LET d == json_loads(text)
            IN IF ~d.ok THEN Raise("ValueError")
               ELSE IF d.v.t = "obj" THEN Return(Get(d.v, "questions", d.v))
               ELSE Raise("AttributeError")

\* QuizGenerator.parse_quiz_response: only json.JSONDecodeError is caught
parse_quiz_response(text) ==
    LET m == re_search(text, "[", "]")
    IN IF m.found
       THEN LET d == json_loads_group(m)
            IN IF d.ok THEN Return(d.v) ELSE Raise("ValueError")
       ELSE LET d == json_loads(text)
            IN IF ~d.ok THEN Raise("ValueError")
               ELSE IF d.v.t = "obj" THEN Return(Get(d.v, "questions", d.v))
               ELSE Raise("AttributeError")

NoJsonFeedback ==
    [strength_analysis |-> JStr("Good effort on the quiz."),
     weakness_analysis |-> JStr("Some areas need improvement."),
     suggestions |-> JStr("Review the topics and try again.")]

DecodeErrorFeedback ==
    [strength_analysis |-> JStr("Keep practicing to improve."),
     weakness_analysis |-> JStr("Review the material more thoroughly."),
     suggestions |-> JStr("Consider retaking the quiz after studying.")]

\* a generic sentence instead of the empty string
feedback_default_generic(key) == JStr("Keep practicing to improve.")

\* the default of feedback.get(key, default) in parse_feedback_response
feedback_default(key) == JStr("")

\* PerformanceAnalyzer.parse_feedback_response
parse_feedback_response(text) ==
    LET m == re_search(text, "{", "}")
    IN IF m.found
       THEN LET d == json_loads_group(m)
            IN IF d.ok
               THEN Return([strength_analysis |->
                                Get(d.v, "strength_analysis", feedback_default("strength_analysis")),
                            weakness_analysis |->
                                Get(d.v, "weakness_analysis", feedback_default("weakness_analysis")),
                            suggestions |->
                                Get(d.v, "suggestions", feedback_default("suggestions"))])
               ELSE Return(DecodeErrorFeedback)
       ELSE Return(NoJsonFeedback)

----------------------------------------------------------------------------
(* quiz/ai_services.py: the two pipelines.  model is what llm.invoke does  *)
(* when it is called: [kind |-> "raise"] or [kind |-> "text", text |-> _]. *)
(* calls lists the api keys the model was invoked with.                    *)

\* QuizGenerator.generate_quiz_prompt: pdf_text[:5000] inside the f-string;
\* None cannot be sliced.  Of the prompt only the text prefix is kept.
generate_quiz_prompt(pdf_text) ==
    IF pdf_text.t = "None" THEN Raise("TypeError") ELSE Return(pdf_text)

\* generate_questions with a second call after a call that failed
generate_questions_retry(self, pdf_text, model) ==
    LET prompt == generate_quiz_prompt(pdf_text)
    IN IF prompt.kind = "raise" THEN [res |-> prompt, calls |-> <<>>]
       ELSE IF model.kind = "raise"
       THEN [res |-> Raise("ModelCallError"), calls |-> <<self.api_key, self.api_key>>]
       ELSE [res |-> parse_quiz_response(model.text), calls |-> <<self.api_key>>]

\* QuizGenerator.generate_questions
generate_questions(self, pdf_text, model) ==
    LET prompt == generate_quiz_prompt(pdf_text)
    IN IF prompt.kind = "raise" THEN [res |-> prompt, calls |-> <<>>]
       ELSE [res |-> IF model.kind = "raise" THEN Raise("ModelCallError")
                     ELSE parse_quiz_response(model.text),
             calls |-> <<self.api_key>>]

\* generate_quiz_questions
generate_quiz_questions(cfg, pdf_text, model) ==
    LET generator == QuizGenerator_init(cfg)
    IN IF generator.kind = "raise" THEN [res |-> generator, calls |-> <<>>]
       ELSE generate_questions(generator.value, pdf_text, model)

\* PerformanceAnalyzer.generate_feedback
generate_feedback(self, model) ==
    [res |-> IF model.kind = "raise" THEN Raise("ModelCallError")
             ELSE parse_feedback_response(model.text),
     calls |-> <<self.api_key>>]

\* generate_performance_feedback
generate_performance_feedback(cfg, model) ==
    LET analyzer == PerformanceAnalyzer_init(cfg)
    IN IF analyzer.kind = "raise" THEN [res |-> analyzer, calls |-> <<>>]
       ELSE generate_feedback(analyzer.value, model)

----------------------------------------------------------------------------
(* quiz/models.py: the tables and the ORM calls the views make.  db is the *)
(* record of all tables; every call maps a db to the db after it.          *)

db ==
    [documents |-> documents, quizzes |-> quizzes, questions |-> questions,
     answers |-> answers, results |-> results, next_id |-> next_id]

\* PDFDocument.objects.create
PDFDocument_create(d, user, title, text_content) ==
    [d EXCEPT !.documents = @ \cup {[id |-> d.next_id.document, user |-> user,
                                     title |-> title, text_content |-> text_content]},
              !.next_id.document = @ + 1]

\* pdf_doc.text_content = text_content; pdf_doc.save()
PDFDocument_save_text(d, pdf_id, text_content) ==
    [d EXCEPT !.documents =
        {IF doc.id = pdf_id THEN [doc EXCEPT !.text_content = text_content] ELSE doc : doc \in @}]

\* Quiz.objects.create: is_completed defaults to False
Quiz_create(d, user, pdf, subject, difficulty, number_of_questions) ==
    [d EXCEPT !.quizzes = @ \cup {[id |-> d.next_id.quiz, user |-> user, pdf |-> pdf,
                                   subject |-> subject, difficulty |-> difficulty,
                                   number_of_questions |-> number_of_questions,
                                   is_completed |-> FALSE]},
              !.next_id.quiz = @ + 1]

\* quiz.is_completed = True; quiz.save()
Quiz_complete(d, quiz_id) ==
    [d EXCEPT !.quizzes =
        {IF q.id = quiz_id THEN [q EXCEPT !.is_completed = TRUE] ELSE q : q \in @}]

\* quiz.delete() without the cascade to the rows that reference the quiz
Quiz_delete_no_cascade(d, quiz_ids) ==
    [d EXCEPT !.quizzes = {q \in @ : q.id \notin quiz_ids}]

\* quiz.delete(): Question, UserAnswer and Result reference Quiz with
\* on_delete=CASCADE, UserAnswer references Question with CASCADE
Quiz_delete(d, quiz_ids) ==
    [d EXCEPT !.quizzes = {q \in @ : q.id \notin quiz_ids},
              !.questions = {q \in @ : q.quiz \notin quiz_ids},
              !.answers = {a \in @ : a.quiz \notin quiz_ids},
              !.results = {r \in @ : r.quiz \notin quiz_ids}]

\* pdf.delete() with Quiz.pdf declared on_delete=SET_NULL: the quizzes stay,
\* without their document
PDFDocument_delete_set_null(d, pdf_id) ==
    [d EXCEPT !.quizzes = {IF q.pdf = pdf_id THEN [q EXCEPT !.pdf = 0] ELSE q : q \in @},
              !.documents = {doc \in @ : doc.id # pdf_id}]

\* pdf.delete(): Quiz references PDFDocument with on_delete=CASCADE
PDFDocument_delete(d, pdf_id) ==
    LET d1 == Quiz_delete(d, {q.id : q \in {x \in d.quizzes : x.pdf = pdf_id}})
    IN [d1 EXCEPT !.documents = {doc \in @ : doc.id # pdf_id}]

\* str(value), what a CharField / TextField stores for a non-string value
ToText(v) ==
    CASE v.t = "str" -> v.s
      [] v.t = "num" -> "5"
      [] v.t = "arr" -> "[...]"
      [] v.t = "obj" -> "{...}"

\* a nullable text column: None is stored as NULL
StoreText(v) == IF v.t = "None" THEN "<NULL>" ELSE ToText(v)

\* Question.objects.create(...) with q_data['question'], q_data['options']
\* ['A'] ... in place of the q_data.get(...) arguments: a missing key raises
Question_create_subscript(d, quiz_id, q_data, idx) ==
    IF q_data.t # "obj" THEN Raise("TypeError")
    ELSE IF {"question", "options", "correct_answer", "explanation"} \subseteq DOMAIN q_data.m
            /\ q_data.m["options"].t = "obj"
            /\ {"A", "B", "C", "D"} \subseteq DOMAIN q_data.m["options"].m
    THEN Return(
        [d EXCEPT
            !.questions = @ \cup
                {[id |-> d.next_id.question, quiz |-> quiz_id, order |-> idx,
                  question_text |-> ToText(q_data.m["question"]),
                  option_a |-> ToText(q_data.m["options"].m["A"]),
                  option_b |-> ToText(q_data.m["options"].m["B"]),
                  option_c |-> ToText(q_data.m["options"].m["C"]),
                  option_d |-> ToText(q_data.m["options"].m["D"]),
                  correct_answer |-> ToText(q_data.m["correct_answer"]),
                  explanation |-> StoreText(q_data.m["explanation"])]},
            !.next_id.question = @ + 1])
    ELSE Raise("KeyError")

\* Question.objects.create(...) with the q_data.get(...) arguments of the
\* views: q_data or its options not being a dict raises AttributeError, a
\* null in a NOT NULL column raises IntegrityError
Question_create(d, quiz_id, q_data, idx) ==
    IF q_data.t # "obj" THEN Raise("AttributeError")
    ELSE LET options == Get(q_data, "options", JObj(<<>>))
         IN IF options.t # "obj" THEN Raise("AttributeError")
            ELSE LET question_text == Get(q_data, "question", JStr(""))
                     option_a == Get(options, "A", JStr(""))
                     option_b == Get(options, "B", JStr(""))
                     option_c == Get(options, "C", JStr(""))
                     option_d == Get(options, "D", JStr(""))
                     correct_answer == Get(q_data, "correct_answer", JStr("A"))
                     explanation == Get(q_data, "explanation", JStr(""))
                     required == <<question_text, option_a, option_b, option_c, option_d,
                                   correct_answer>>
                 IN IF \E i \in 1..Len(required) : required[i].t = "None"
                    THEN Raise("IntegrityError")
                    ELSE Return(
                        [d EXCEPT
                            !.questions = @ \cup
                                {[id |-> d.next_id.question, quiz |-> quiz_id, order |-> idx,
                                  question_text |-> ToText(question_text),
                                  option_a |-> ToText(option_a),
                                  option_b |-> ToText(option_b),
                                  option_c |-> ToText(option_c),
                                  option_d |-> ToText(option_d),
                                  correct_answer |-> ToText(correct_answer),
                                  explanation |-> StoreText(explanation)]},
                            !.next_id.question = @ + 1])

\* UserAnswer.objects.create: a second row for the pair
UserAnswer_create(d, user, quiz_id, question_id, selected_answer, is_correct) ==
    [d EXCEPT !.answers = @ \cup
                  {[id |-> d.next_id.answer, user |-> user, quiz |-> quiz_id,
                    question |-> question_id, selected_answer |-> selected_answer,
                    is_correct |-> is_correct]},
              !.next_id.answer = @ + 1]

\* UserAnswer.objects.update_or_create(user, quiz, question, defaults)
UserAnswer_update_or_create(d, user, quiz_id, question_id, selected_answer, is_correct) ==
    LET match(a) == a.user = user /\ a.quiz = quiz_id /\ a.question = question_id
    IN IF \E a \in d.answers : match(a)
       THEN [d EXCEPT !.answers =
                {IF match(a) THEN [a EXCEPT !.selected_answer = selected_answer,
                                            !.is_correct = is_correct]
                 ELSE a : a \in @}]
       ELSE [d EXCEPT !.answers = @ \cup
                          {[id |-> d.next_id.answer, user |-> user, quiz |-> quiz_id,
                            question |-> question_id, selected_answer |-> selected_answer,
                            is_correct |-> is_correct]},
                      !.next_id.answer = @ + 1]

\* Result.objects.update_or_create(user, quiz, defaults): the Result of an
\* earlier submission is overwritten
Result_update_or_create(d, user, quiz_id, score, total_questions, correct_answers, wrong_answers, percentage, feedback) ==
    [d EXCEPT !.results = {r \in @ : ~(r.user = user /\ r.quiz = quiz_id)} \cup
                  {[id |-> d.next_id.result, user |-> user, quiz |-> quiz_id,
                    score |-> score, total_questions |-> total_questions,
                    correct_answers |-> correct_answers, wrong_answers |-> wrong_answers,
                    percentage |-> percentage,
                    strength_analysis |-> feedback.strength_analysis,
                    weakness_analysis |-> feedback.weakness_analysis,
                    suggestions |-> feedback.suggestions]},
              !.next_id.result = @ + 1]

\* Result.objects.create
Result_create(d, user, quiz_id, score, total_questions, correct_answers, wrong_answers, percentage, feedback) ==
    [d EXCEPT !.results = @ \cup
                  {[id |-> d.next_id.result, user |-> user, quiz |-> quiz_id,
                    score |-> score, total_questions |-> total_questions,
                    correct_answers |-> correct_answers, wrong_answers |-> wrong_answers,
                    percentage |-> percentage,
                    strength_analysis |-> feedback.strength_analysis,
                    weakness_analysis |-> feedback.weakness_analysis,
                    suggestions |-> feedback.suggestions]},
              !.next_id.result = @ + 1]

\* quiz.questions.all(): the quiz's questions by Meta.ordering = ['order'],
\* as a sequence
RECURSIVE OrderedRows(_)
OrderedRows(rows) ==
    IF rows = {} THEN <<>>
    ELSE LET first == CHOOSE r \in rows :
                          \A o \in rows : r.order < o.order \/ (r.order = o.order /\ r.id <= o.id)
         IN <<first>> \o OrderedRows(rows \ {first})

quiz_questions_all(d, quiz_id) == OrderedRows({q \in d.questions : q.quiz = quiz_id})

----------------------------------------------------------------------------
(* quiz/pdf_utils.py *)

\* extract_text_from_pdf: pdf is [readable |-> BOOLEAN, pages |-> texts];
\* pages without text are skipped, the others joined.  The joined text is
\* kept only as empty / non-empty.
extract_text_from_pdf(pdf) ==
    IF ~pdf.readable THEN Raise("ValueError")
    ELSE LET text_content == SelectSeq(pdf.pages, LAMBDA text : text # "")
         IN Return(JStr(IF text_content = <<>> THEN "" ELSE "pdf text"))

----------------------------------------------------------------------------
(* views.py: helpers of the generation views *)

\* int(request.POST.get('num_questions', 10))
python_int(s) ==
    CASE s = "0" -> Return(0)
      [] s = "1" -> Return(1)
      [] s = "2" -> Return(2)
      [] s = "3" -> Return(3)
      [] s = "51" -> Return(51)
      [] OTHER -> Raise("ValueError")

RECURSIVE SetToSeq(_)
SetToSeq(S) == IF S = {} THEN <<>> ELSE LET x == CHOOSE x \in S : TRUE
                                        IN <<x>> \o SetToSeq(S \ {x})

\* for idx, q_data in enumerate(questions_data, 1): what the loop iterates
\* over.  A dict yields its keys, a string its characters (kept as one
\* element: only the first one is ever looked at), anything else is not
\* iterable.
python_iter(v) ==
    CASE v.t = "arr" -> Return(v.items)
      [] v.t = "obj" -> Return([i \in 1..Cardinality(DOMAIN v.m) |->
                                    JStr(SetToSeq(DOMAIN v.m)[i])])
      [] v.t = "str" -> Return(IF v.s = "" THEN <<>> ELSE <<v>>)
      [] OTHER -> Raise("TypeError")

\* the loop with enumerate(questions_data): positions from 0
RECURSIVE save_questions_from_zero(_, _, _, _)
save_questions_from_zero(d, quiz_id, items, idx) ==
    IF idx > Len(items) THEN [kind |-> "return", db |-> d]
    ELSE LET r == Question_create(d, quiz_id, items[idx], idx - 1)
         IN IF r.kind = "raise" THEN [kind |-> "raise", exc |-> r.exc, db |-> d]
            ELSE save_questions_from_zero(r.value, quiz_id, items, idx + 1)

\* the loop that saves the questions: rows already created stay in the
\* tables when a later item raises
RECURSIVE save_questions(_, _, _, _)
save_questions(d, quiz_id, items, idx) ==
    IF idx > Len(items) THEN [kind |-> "return", db |-> d]
    ELSE LET r == Question_create(d, quiz_id, items[idx], idx)
         IN IF r.kind = "raise" THEN [kind |-> "raise", exc |-> r.exc, db |-> d]
            ELSE save_questions(r.value, quiz_id, items, idx + 1)

\* the end of the try block (447-448) once the loop has run through, or the
\* except clause when an item raised: saved is what save_questions returned
save_outcome(quiz_id, calls, drafts, saved) ==
    IF saved.kind = "raise"
    THEN [db |-> Quiz_delete(saved.db, {quiz_id}), outcome |-> "generation_failed",
          error |-> saved.exc, calls |-> calls, drafts |-> <<>>]
    ELSE [db |-> Quiz_complete(saved.db, quiz_id), outcome |-> "completed", error |-> "",
          calls |-> calls, drafts |-> drafts]

\* the try / except after generate_quiz_questions has answered with g: a
\* raise, or a value the loop cannot iterate over, deletes the quiz
save_generated(d, quiz_id, g) ==
    LET failed(exc) ==
            [db |-> Quiz_delete(d, {quiz_id}), outcome |-> "generation_failed",
             error |-> exc, calls |-> g.calls, drafts |-> <<>>]
        loop(items) ==
            IF items.kind = "raise" THEN failed(items.exc)
            ELSE save_outcome(quiz_id, g.calls, items.value,
                              save_questions(d, quiz_id, items.value, 1))
    IN IF g.res.kind = "raise" THEN failed(g.res.exc)
       ELSE loop(python_iter(g.res.value))

\* the try / except of create_quiz (424-460) and, with the same text, of
\* create_quiz_from_topic (344-380), run on the db d in which the quiz has
\* just been created.  Both except clauses delete the quiz.
generate_and_save(d, quiz_id, cfg, pdf_text, model) ==
    save_generated(d, quiz_id, generate_quiz_questions(cfg, pdf_text, model))

DIFFICULTY_CHOICES == {"Easy", "Medium", "Hard"}

----------------------------------------------------------------------------
(* views.py: helpers of submit_quiz *)

\* the percentage cut to two decimals instead of rounded
percentage_of_truncated(score, total_questions) ==
    IF total_questions > 0 THEN (10000 * score) \div total_questions ELSE 0

\* round(score / total_questions * 100, 2) if total_questions > 0 else 0,
\* in hundredths of a percent; ties go to the even hundredth
percentage_of(score, total_questions) ==
    IF total_questions > 0
    THEN LET n == 10000 * score
             q == n \div total_questions
             r == n % total_questions
         IN IF 2 * r > total_questions \/ (2 * r = total_questions /\ q % 2 = 1)
            THEN q + 1 ELSE q
    ELSE 0

\* the percentage of generate_feedback_prompt, not rounded: the fraction
\* num / den
prompt_percentage(correct_count, total_questions) ==
    IF total_questions > 0 THEN [num |-> correct_count * 100, den |-> total_questions]
    ELSE [num |-> 0, den |-> 1]

\* the comparison with the two labels brought to upper case first
is_correct_of_ignoring_case(selected_answer, question) ==
    LET upper(label) == IF label = "a" THEN "A" ELSE label
    IN upper(selected_answer) = upper(question.correct_answer)

\* is_correct = selected_answer == question.correct_answer: equality of
\* two strings
is_correct_of(selected_answer, question) ==
    selected_answer = question.correct_answer

\* the loop with a question that was not answered counted as wrong
RECURSIVE grade_unanswered_wrong(_, _, _, _, _, _)
grade_unanswered_wrong(acc, user, quiz_id, qs, post, i) ==
    IF i > Len(qs) THEN acc
    ELSE LET question == qs[i]
             selected_answer == post[question.id]
             is_correct == Truthy(selected_answer) /\ is_correct_of(selected_answer.s, question)
         IN grade_unanswered_wrong(
                [db |-> IF Truthy(selected_answer)
                        THEN UserAnswer_update_or_create(acc.db, user, quiz_id, question.id,
                                                         selected_answer.s, is_correct)
                        ELSE acc.db,
                 score |-> IF is_correct THEN acc.score + 1 ELSE acc.score,
                 correct_count |-> IF is_correct THEN acc.correct_count + 1
                                   ELSE acc.correct_count,
                 wrong_count |-> IF is_correct THEN acc.wrong_count ELSE acc.wrong_count + 1],
                user, quiz_id, qs, post, i + 1)

\* the for loop over the quiz's questions; post maps a question id to the
\* POSTed value of question_<id> (None when the field is missing)
RECURSIVE grade(_, _, _, _, _, _)
grade(acc, user, quiz_id, qs, post, i) ==
    IF i > Len(qs) THEN acc
    ELSE LET question == qs[i]
             selected_answer == post[question.id]
         IN IF Truthy(selected_answer)
            THEN LET is_correct == is_correct_of(selected_answer.s, question)
                 IN grade([db |-> UserAnswer_update_or_create(acc.db, user, quiz_id,
                                       question.id, selected_answer.s, is_correct),
                           score |-> IF is_correct THEN acc.score + 1 ELSE acc.score,
                           correct_count |-> IF is_correct THEN acc.correct_count + 1
                                             ELSE acc.correct_count,
                           wrong_count |-> IF is_correct THEN acc.wrong_count
                                           ELSE acc.wrong_count + 1],
                          user, quiz_id, qs, post, i + 1)
            ELSE grade(acc, user, quiz_id, qs, post, i + 1)

\* the triple of the second except clause used in the first one as well
NotConfiguredFeedback_same_wording ==
    [strength_analysis |-> JStr("Keep practicing to improve your understanding."),
     weakness_analysis |-> JStr("Review the topics you got wrong."),
     suggestions |-> JStr("Consider retaking the quiz after studying.")]

\* the triple of except APIKeyError
NotConfiguredFeedback ==
    [strength_analysis |->
         JStr("AI service not configured. Please contact administrator for detailed feedback."),
     weakness_analysis |->
         JStr("AI service not configured. Please contact administrator for detailed feedback."),
     suggestions |->
         JStr("AI service not configured. Please contact administrator for detailed feedback.")]

\* the triple of except Exception
KeepPracticingFeedback ==
    [strength_analysis |-> JStr("Keep practicing to improve your understanding."),
     weakness_analysis |-> JStr("Review the topics you got wrong."),
     suggestions |-> JStr("Consider retaking the quiz after studying.")]

\* the feedback try / except with only the APIKeyError clause
feedback_or_fallback_no_catch_all(f) ==
    IF f.res.kind = "return" THEN f.res
    ELSE IF f.res.exc = "APIKeyError" THEN Return(NotConfiguredFeedback)
    ELSE f.res

\* the feedback try / except of submit_quiz: APIKeyError and every other
\* Exception are replaced by a fixed triple
feedback_or_fallback(f) ==
    IF f.res.kind = "return" THEN f.res
    ELSE IF f.res.exc = "APIKeyError" THEN Return(NotConfiguredFeedback)
    ELSE Return(KeepPracticingFeedback)

\* the three columns of the Result row
feedback_columns(feedback) ==
    [strength_analysis |-> StoreText(feedback.strength_analysis),
     weakness_analysis |-> StoreText(feedback.weakness_analysis),
     suggestions |-> StoreText(feedback.suggestions)]

----------------------------------------------------------------------------
(* Requests.  Every view runs as the logged-in user; what a request reads  *)
(* from outside the tables is an input: the POST fields and what the model *)
(* does if it is called.  The credentials are fixed when the process       *)
(* starts.                                                                 *)

Users == {"u1", "u2"}

KeyValues == {None, JStr(""), JStr(PLACEHOLDER), JStr("key")}

Credentials ==
    [GOOGLE_API_KEY : KeyValues, GEMINI_API_KEY : KeyValues, env_GOOGLE_API_KEY : KeyValues]

\* the configurations the request specification starts from: a key in the
\* second source, the placeholder left in the first one, nothing configured
DeployedCredentials ==
    {[GOOGLE_API_KEY |-> None, GEMINI_API_KEY |-> JStr("key"), env_GOOGLE_API_KEY |-> None],
     [GOOGLE_API_KEY |-> JStr(PLACEHOLDER), GEMINI_API_KEY |-> JStr("key"),
      env_GOOGLE_API_KEY |-> JStr("key")],
     [GOOGLE_API_KEY |-> None, GEMINI_API_KEY |-> None, env_GOOGLE_API_KEY |-> JStr("")]}

ModelRaises == [kind |-> "raise", text |-> <<>>]
ModelSays(text) == [kind |-> "text", text |-> text]

GenerationTexts ==
    {<<"[", "qA", "]">>,
     <<"p", "{", "k:", "[", "qA", "qA", "]", "}">>,
     <<"[", "qA", "qx", "]">>,
     <<"[", "qE", "qA", "]">>,
     <<"{", "}">>,
     <<"n">>,
     <<"p">>}

FeedbackTexts ==
    {<<"p", "{", "S", "W", "G", "}">>,
     <<"{", "p", "}">>,
     <<"p">>}

GenerationModels == {ModelRaises} \cup {ModelSays(text) : text \in GenerationTexts}
FeedbackModels == {ModelRaises} \cup {ModelSays(text) : text \in FeedbackTexts}

\* the POSTs of the generation views: the well-formed ones with every model
\* behaviour, and the ones the validation stops, one bad field at a time
Form(method, name, difficulty, num, model) ==
    [method |-> method, name |-> name, difficulty |-> difficulty, num |-> num, model |-> model]

GenerationRequests ==
    {Form("POST", "Biology", "Easy", "2", model) : model \in GenerationModels}
    \cup {Form("POST", "Biology", "Easy", num, ModelSays(<<"[", "qA", "]">>)) :
              num \in {"x", "0", "51"}}
    \cup {Form("POST", "", "Easy", "1", ModelSays(<<"[", "qA", "]">>)),
          Form("POST", "Biology", "Extreme", "1", ModelSays(<<"[", "qA", "]">>)),
          Form("GET", "", "", "", ModelSays(<<"[", "qA", "]">>))}

Selections == {None, JStr(""), JStr("A"), JStr("B")}

\* PDFDocument.text_content: NULL until the extraction succeeds, then the
\* extracted text, which may be empty
TextContents == {None, JStr(""), JStr("pdf text")}

\* the rows a view renders, by primary key
NothingShown == [quizzes |-> {}, questions |-> {}, answers |-> {}, results |-> {}]

\* the arguments of a call of generate_quiz_questions
GenerationArgs(pdf_text, subject, difficulty, num_questions) ==
    [pdf_text |-> pdf_text, subject |-> subject, difficulty |-> difficulty,
     num_questions |-> num_questions]

\* generation: the calls of generate_quiz_questions the request made;
\* drafts: the question list a successful generation returned
Resp(view, user, outcome) ==
    [view |-> view, user |-> user, outcome |-> outcome, error |-> "", calls |-> <<>>,
     quiz |-> 0, result |-> 0, selected |-> <<>>, generation |-> <<>>, drafts |-> <<>>,
     shown |-> NothingShown]

\* request.user.is_staff or request.user.is_superuser
Staff == {"admin"}

Account(is_active, is_staff, is_superuser, status) ==
    [is_active |-> is_active, is_staff |-> is_staff, is_superuser |-> is_superuser,
     status |-> status]

\* the accounts of the request specifications: two learners as register
\* leaves them (active, profile Approved) and one administrator
RegisteredAccounts ==
    [name \in Users \cup Staff |->
        IF name \in Staff THEN Account(TRUE, TRUE, TRUE, "Approved")
        ELSE Account(TRUE, FALSE, FALSE, "Approved")]

\* every account is logged in from a browser of its own, named after it
LoggedIn ==
    /\ accounts = RegisteredAccounts
    /\ session = [name \in Users \cup Staff |-> [user |-> name, last_result_id |-> 0]]

\* no request in progress, nothing handed to the percentage computations
NoCounts == [total_questions |-> 0, correct_count |-> 0]
Idle == inflight = <<>> /\ counts = NoCounts /\ LoggedIn

Commit(d) ==
    /\ documents' = d.documents
    /\ quizzes' = d.quizzes
    /\ questions' = d.questions
    /\ answers' = d.answers
    /\ results' = d.results
    /\ next_id' = d.next_id

Init ==
    /\ documents = {}
    /\ quizzes = {}
    /\ questions = {}
    /\ answers = {}
    /\ results = {}
    /\ next_id = [document |-> 1, quiz |-> 1, question |-> 1, answer |-> 1, result |-> 1]
    /\ settings \in DeployedCredentials
    /\ response = Resp("none", "", "none")
    /\ last_selected = <<>>
    /\ raw_text = <<>>
    /\ parse_out = [fn |-> "none"]
    /\ Idle

\* the history of selections, kept for the questions that still exist
Forget(d) ==
    last_selected' = [k \in {x \in DOMAIN last_selected : \E q \in d.questions : q.id = x[2]}
                          |-> last_selected[k]]

\* upload_pdf
upload_pdf(user, file_name, pdf) ==
    /\ next_id.document <= MaxDocs
    /\ IF file_name = "" \/ file_name # "notes.pdf"
       THEN /\ response' = Resp("upload_pdf", user, "rejected")
            /\ UNCHANGED storage
       ELSE LET d1 == PDFDocument_create(db, user, file_name, None)
                text_content == extract_text_from_pdf(pdf)
            IN IF text_content.kind = "raise"
               THEN /\ Commit(d1)
                    /\ response' = [Resp("upload_pdf", user, "extraction_failed")
                                        EXCEPT !.error = text_content.exc]
               ELSE /\ Commit(PDFDocument_save_text(d1, db.next_id.document,
                                                    text_content.value))
                    /\ response' = Resp("upload_pdf", user, "uploaded")
    /\ UNCHANGED <<settings, last_selected, raw_text, parse_out, inflight, counts, accounts, session>>

\* the validation both generation views run on the POST fields; "" when the
\* request passes
rejected_input(name, difficulty, num_questions) ==
    IF num_questions.kind = "raise" THEN "500"
    ELSE IF name = "" THEN "rejected"
    ELSE IF difficulty \notin DIFFICULTY_CHOICES THEN "rejected"
    ELSE IF num_questions.value < 1 \/ num_questions.value > 50 THEN "rejected"
    ELSE ""

\* create_quiz_from_topic
create_quiz_from_topic(user, method, topic, difficulty, num, model) ==
    /\ next_id.document <= MaxDocs
    /\ next_id.quiz <= MaxQuizzes
    /\ LET view == "create_quiz_from_topic"
           num_questions == python_int(num)
           rejected == rejected_input(topic, difficulty, num_questions)
       IN IF method # "POST"
          THEN /\ response' = Resp(view, user, "redirect")
               /\ UNCHANGED storage
          ELSE IF rejected # ""
          THEN /\ response' = Resp(view, user, rejected)
               /\ UNCHANGED storage
          ELSE LET d1 == PDFDocument_create(db, user, "Topic", JStr("Topic"))
                   d2 == Quiz_create(d1, user, db.next_id.document, topic, difficulty,
                                     num_questions.value)
                   g == generate_and_save(d2, db.next_id.quiz, settings,
                                          JStr("Generate questions about"), model)
               IN /\ Commit(g.db)
                  /\ response' = [Resp(view, user, g.outcome)
                                      EXCEPT !.error = g.error, !.calls = g.calls,
                                             !.quiz = db.next_id.quiz,
                                             !.drafts = g.drafts,
                                             !.generation =
                                                 <<GenerationArgs(
                                                     JStr("Generate questions about"),
                                                     topic, difficulty,
                                                     num_questions.value)>>]
    /\ UNCHANGED <<settings, last_selected, raw_text, parse_out, inflight, counts, accounts, session>>

\* create_quiz
create_quiz(user, pdf_id, method, subject, difficulty, num, model) ==
    /\ next_id.quiz <= MaxQuizzes
    /\ LET view == "create_quiz"
           num_questions == python_int(num)
           rejected == rejected_input(subject, difficulty, num_questions)
       IN IF ~\E doc \in documents : doc.id = pdf_id /\ doc.user = user
          THEN /\ response' = Resp(view, user, "404")
               /\ UNCHANGED storage
          ELSE IF method # "POST"
          THEN /\ response' = Resp(view, user, "form")
               /\ UNCHANGED storage
          ELSE IF rejected # ""
          THEN /\ response' = Resp(view, user, rejected)
               /\ UNCHANGED storage
          ELSE IF \E doc \in documents : doc.id = pdf_id /\ ~Truthy(doc.text_content)
          THEN /\ response' = Resp(view, user, "no_text")
               /\ UNCHANGED storage
          ELSE LET d1 == Quiz_create(db, user, pdf_id, subject, difficulty,
                                     num_questions.value)
                   pdf_doc == CHOOSE doc \in documents : doc.id = pdf_id
                   g == generate_and_save(d1, db.next_id.quiz, settings,
                                          pdf_doc.text_content, model)
               IN /\ Commit(g.db)
                  /\ response' = [Resp(view, user, g.outcome)
                                      EXCEPT !.error = g.error, !.calls = g.calls,
                                             !.quiz = db.next_id.quiz,
                                             !.drafts = g.drafts,
                                             !.generation =
                                                 <<GenerationArgs(pdf_doc.text_content,
                                                     subject, difficulty,
                                                     num_questions.value)>>]
    /\ UNCHANGED <<settings, last_selected, raw_text, parse_out, inflight, counts, accounts, session>>

\* submit_quiz
submit_quiz(user, quiz_id, method, post, model) ==
    /\ next_id.result <= MaxResults
    /\ LET view == "submit_quiz"
       IN IF ~\E q \in quizzes : q.id = quiz_id /\ q.user = user
          THEN /\ response' = Resp(view, user, "404")
               /\ UNCHANGED <<storage, last_selected, session>>
          ELSE IF method # "POST"
          THEN /\ response' = [Resp(view, user, "redirect") EXCEPT !.quiz = quiz_id]
               /\ UNCHANGED <<storage, last_selected, session>>
          ELSE LET qs == quiz_questions_all(db, quiz_id)
                   total_questions == Len(qs)
                   g == grade([db |-> db, score |-> 0, correct_count |-> 0, wrong_count |-> 0],
                              user, quiz_id, qs, post, 1)
                   percentage == percentage_of(g.score, total_questions)
                   f == generate_performance_feedback(settings, model)
                   feedback == feedback_or_fallback(f)
                   answered == {i \in 1..Len(qs) : Truthy(post[qs[i].id])}
                   selected == [id \in {qs[i].id : i \in answered} |-> post[id].s]
               IN /\ last_selected' =
                         [k \in {<<user, id>> : id \in DOMAIN selected} |->
                              selected[k[2]]] @@ last_selected
                  /\ IF feedback.kind = "raise"
                     THEN /\ Commit(g.db)
                          /\ response' = [Resp(view, user, "500")
                                              EXCEPT !.error = feedback.exc, !.calls = f.calls,
                                                     !.quiz = quiz_id,
                                                     !.selected = selected]
                          /\ UNCHANGED session
                     ELSE /\ Commit(Result_create(g.db, user, quiz_id, g.score,
                                        total_questions, g.correct_count, g.wrong_count,
                                        percentage, feedback_columns(feedback.value)))
                          /\ response' = [Resp(view, user, "graded")
                                              EXCEPT !.error = IF f.res.kind = "raise"
                                                               THEN f.res.exc ELSE "",
                                                     !.calls = f.calls,
                                                     !.quiz = quiz_id,
                                                     !.result = db.next_id.result,
                                                     !.selected = selected]
                          \* request.session['last_result_id'] = result.id
                          /\ session' = [session EXCEPT
                                             ![user].last_result_id = db.next_id.result]
    /\ UNCHANGED <<settings, raw_text, parse_out, inflight, counts, accounts>>

\* delete_pdf
delete_pdf(user, pdf_id) ==
    /\ IF ~\E doc \in documents : doc.id = pdf_id /\ doc.user = user
       THEN /\ response' = Resp("delete_pdf", user, "404")
            /\ UNCHANGED <<storage, last_selected>>
       ELSE /\ Commit(PDFDocument_delete(db, pdf_id))
            /\ Forget(PDFDocument_delete(db, pdf_id))
            /\ response' = Resp("delete_pdf", user, "deleted")
    /\ UNCHANGED <<settings, raw_text, parse_out, inflight, counts, accounts, session>>

\* delete_quiz
delete_quiz_any_owner(user, quiz_id) ==
    /\ IF ~\E q \in quizzes : q.id = quiz_id
       THEN /\ response' = Resp("delete_quiz", user, "404")
            /\ UNCHANGED <<storage, last_selected>>
       ELSE /\ Commit(Quiz_delete(db, {quiz_id}))
            /\ Forget(Quiz_delete(db, {quiz_id}))
            /\ response' = [Resp("delete_quiz", user, "deleted") EXCEPT !.quiz = quiz_id]
    /\ UNCHANGED <<settings, raw_text, parse_out, inflight, counts, accounts, session>>

delete_quiz(user, quiz_id) ==
    /\ IF ~\E q \in quizzes : q.id = quiz_id /\ q.user = user
       THEN /\ response' = Resp("delete_quiz", user, "404")
            /\ UNCHANGED <<storage, last_selected>>
       ELSE /\ Commit(Quiz_delete(db, {quiz_id}))
            /\ Forget(Quiz_delete(db, {quiz_id}))
            /\ response' = [Resp("delete_quiz", user, "deleted") EXCEPT !.quiz = quiz_id]
    /\ UNCHANGED <<settings, raw_text, parse_out, inflight, counts, accounts, session>>

\* take_quiz
take_quiz(user, quiz_id) ==
    /\ IF ~\E q \in quizzes : q.id = quiz_id /\ q.user = user
       THEN response' = Resp("take_quiz", user, "404")
       ELSE response' = [Resp("take_quiz", user, "rendered")
                            EXCEPT !.quiz = quiz_id,
                                   !.shown.quizzes = {quiz_id},
                                   !.shown.questions =
                                       {q.id : q \in {x \in questions : x.quiz = quiz_id}}]
    /\ UNCHANGED <<storage, settings, last_selected, raw_text, parse_out, inflight, counts, accounts, session>>

\* quiz_detail: the quiz is looked up by id alone
quiz_detail(user, quiz_id) ==
    /\ IF ~\E q \in quizzes : q.id = quiz_id
       THEN response' = Resp("quiz_detail", user, "404")
       ELSE LET of_quiz(rows) == {x \in rows : x.quiz = quiz_id}
                own(rows) == {x \in of_quiz(rows) : x.user = user}
                \* .first() under Meta.ordering = ['-completed_at']
                first == {r \in own(results) : \A o \in own(results) : o.id <= r.id}
            IN response' =
                   [Resp("quiz_detail", user, "rendered")
                       EXCEPT !.quiz = quiz_id,
                              !.shown.quizzes = {quiz_id},
                              !.shown.questions = {q.id : q \in of_quiz(questions)},
                              !.shown.answers =
                                  IF user \in Staff THEN {a.id : a \in of_quiz(answers)}
                                  ELSE {a.id : a \in own(answers)},
                              !.shown.results =
                                  IF user \in Staff THEN {r.id : r \in of_quiz(results)}
                                  ELSE {r.id : r \in first}]
    /\ UNCHANGED <<storage, settings, last_selected, raw_text, parse_out, inflight, counts, accounts, session>>

\* quiz_result: the page after the redirect of submit_quiz.  A session
\* without the key 'last_result_id' is last_result_id = 0
quiz_result(user, quiz_id) ==
    /\ IF ~\E q \in quizzes : q.id = quiz_id /\ q.user = user
       THEN /\ response' = Resp("quiz_result", user, "404")
            /\ UNCHANGED session
       ELSE LET result_id == session[user].last_result_id
                own == {r \in results : r.user = user /\ r.quiz = quiz_id}
                \* .first() under Meta.ordering = ['-completed_at']
                first == {r \in own : \A o \in own : o.id <= r.id}
                result == IF result_id # 0 THEN {r \in own : r.id = result_id} ELSE first
            IN \* del request.session['last_result_id']
               /\ session' = [session EXCEPT ![user].last_result_id = 0]
               /\ IF result = {}
                  THEN response' = [Resp("quiz_result", user, "no_result")
                                        EXCEPT !.quiz = quiz_id]
                  ELSE response' =
                           [Resp("quiz_result", user, "rendered")
                               EXCEPT !.quiz = quiz_id,
                                      !.shown.quizzes = {quiz_id},
                                      !.shown.questions =
                                          {q.id : q \in {x \in questions : x.quiz = quiz_id}},
                                      !.shown.answers =
                                          {a.id : a \in {x \in answers : x.user = user
                                                                         /\ x.quiz = quiz_id}},
                                      !.shown.results = {r.id : r \in result}]
    /\ UNCHANGED <<storage, settings, last_selected, raw_text, parse_out, inflight, counts, accounts>>

\* generate_quiz_ajax; pdf_id = 0 stands for a POST without the field
generate_quiz_ajax(user, method, pdf_id, subject, difficulty, num, model) ==
    /\ LET view == "generate_quiz_ajax"
           num_questions == python_int(num)
       IN IF method # "POST"
          THEN response' = Resp(view, user, "400")
          ELSE IF num_questions.kind = "raise"
          THEN response' = [Resp(view, user, "500") EXCEPT !.error = num_questions.exc]
          ELSE IF pdf_id = 0 \/ subject = "" \/ difficulty = ""
          THEN response' = Resp(view, user, "400")
          ELSE IF ~\E doc \in documents : doc.id = pdf_id /\ doc.user = user
          THEN response' = Resp(view, user, "404")
          ELSE LET pdf_doc == CHOOSE doc \in documents : doc.id = pdf_id
                   g == generate_quiz_questions(settings, pdf_doc.text_content, model)
                   args == <<GenerationArgs(pdf_doc.text_content, subject, difficulty,
                                            num_questions.value)>>
                   \* len(questions_data)
                   items == IF g.res.kind = "raise" THEN g.res ELSE python_iter(g.res.value)
               IN IF items.kind = "raise"
                  THEN response' = [Resp(view, user, "500")
                                       EXCEPT !.error = items.exc, !.calls = g.calls,
                                              !.generation = args]
                  ELSE response' = [Resp(view, user, "success")
                                       EXCEPT !.calls = g.calls, !.generation = args,
                                              !.drafts = items.value]
    /\ UNCHANGED <<storage, settings, last_selected, raw_text, parse_out, inflight, counts, accounts, session>>

\* the POSTs of generate_quiz_ajax
AjaxRequests ==
    {Form("POST", "Biology", "Easy", "2", model) :
         model \in {ModelRaises, ModelSays(<<"[", "qA", "]">>)}}
    \cup {Form("POST", "Biology", "Extreme", "2", ModelSays(<<"[", "qA", "]">>)),
          Form("POST", "Biology", "Easy", "51", ModelSays(<<"[", "qA", "]">>)),
          Form("POST", "Biology", "Easy", "x", ModelSays(<<"[", "qA", "]">>)),
          Form("POST", "", "Easy", "2", ModelSays(<<"[", "qA", "]">>)),
          Form("GET", "", "", "", ModelSays(<<"[", "qA", "]">>))}

Pdfs ==
    {[readable |-> FALSE, pages |-> <<>>],
     [readable |-> TRUE, pages |-> <<"", "">>],
     [readable |-> TRUE, pages |-> <<"", "page">>]}

QuestionIds(quiz_id) == {q.id : q \in {x \in questions : x.quiz = quiz_id}}

Next ==
    \/ \E user \in Users, file_name \in {"", "notes.txt", "notes.pdf"}, pdf \in Pdfs :
           upload_pdf(user, file_name, pdf)
    \/ \E user \in Users, req \in GenerationRequests :
           create_quiz_from_topic(user, req.method, req.name, req.difficulty, req.num,
                                  req.model)
    \/ \E user \in Users, pdf_id \in 1..MaxDocs, req \in GenerationRequests :
           create_quiz(user, pdf_id, req.method, req.name, req.difficulty, req.num, req.model)
    \/ \E user \in Users, quiz_id \in 1..MaxQuizzes, model \in FeedbackModels :
           \E post \in [QuestionIds(quiz_id) -> Selections] :
               submit_quiz(user, quiz_id, "POST", post, model)
    \/ \E user \in Users, quiz_id \in 1..MaxQuizzes :
           submit_quiz(user, quiz_id, "GET", <<>>, ModelRaises)
    \/ \E user \in Users, pdf_id \in 1..MaxDocs : delete_pdf(user, pdf_id)
    \/ \E user \in Users, quiz_id \in 1..MaxQuizzes : delete_quiz(user, quiz_id)

Spec == Init /\ [][Next]_vars

\* the views that write nothing to the tables, over the tables that uploads,
\* a generation answered with two questions and submissions fill
NextViews ==
    \/ \E user \in Users, pdf \in Pdfs : upload_pdf(user, "notes.pdf", pdf)
    \/ \E user \in Users, pdf_id \in 1..MaxDocs :
           create_quiz(user, pdf_id, "POST", "Biology", "Easy", "2",
                       ModelSays(<<"p", "{", "k:", "[", "qA", "qA", "]", "}">>))
    \/ \E user \in Users, quiz_id \in 1..MaxQuizzes :
           \E post \in [QuestionIds(quiz_id) -> Selections] :
               submit_quiz(user, quiz_id, "POST", post, ModelRaises)
    \/ \E user \in Users \cup Staff, quiz_id \in 1..MaxQuizzes : take_quiz(user, quiz_id)
    \/ \E user \in Users \cup Staff, quiz_id \in 1..MaxQuizzes : quiz_detail(user, quiz_id)
    \/ \E user \in Users, pdf_id \in 0..MaxDocs, req \in AjaxRequests :
           generate_quiz_ajax(user, req.method, pdf_id, req.name, req.difficulty, req.num,
                              req.model)

SpecViews == Init /\ [][NextViews]_vars

----------------------------------------------------------------------------
(* Parser specification: the parsers applied to every raw text of at most  *)
(* MaxTok tokens, and to some longer ones.  "p" is a word of prose.        *)

QuizAlphabet == {"[", "]", "{", "}", "k:", "qA", "n", "p", "K[]"}
FeedbackAlphabet == {"{", "}", "p", "S", "W", "G", "S0", "Wn"}

Texts(alphabet, n) == UNION {[1..k -> alphabet] : k \in 0..n}

LongTexts ==
    {<<"p", "{", "k:", "[", "qA", "]", "}", "p">>,
     <<"{", "k:", "[", "qA", "qA", "]", "}">>,
     <<"{", "K[]", "k:", "[", "qA", "]", "}">>,
     <<"p", "{", "S", "W", "G", "}", "p">>,
     <<"{", "S0", "Wn", "G", "}">>}

RawTexts == Texts(QuizAlphabet, MaxTok) \cup Texts(FeedbackAlphabet, MaxTok) \cup LongTexts

NotParsed == [fn |-> "none"]

EmptyStorage ==
    /\ documents = {}
    /\ quizzes = {}
    /\ questions = {}
    /\ answers = {}
    /\ results = {}
    /\ next_id = [document |-> 1, quiz |-> 1, question |-> 1, answer |-> 1, result |-> 1]
    /\ response = Resp("none", "", "none")
    /\ last_selected = <<>>

InitParse ==
    /\ EmptyStorage
    /\ settings = [GOOGLE_API_KEY |-> None, GEMINI_API_KEY |-> None,
                   env_GOOGLE_API_KEY |-> None]
    /\ raw_text \in RawTexts
    /\ parse_out = NotParsed
    /\ Idle

ParseQuizResponse ==
    /\ parse_out = NotParsed
    /\ parse_out' = [fn |-> "parse_quiz_response", res |-> parse_quiz_response(raw_text)]
    /\ UNCHANGED <<storage, settings, response, last_selected, raw_text, inflight, counts, accounts, session>>

ParseFeedbackResponse ==
    /\ parse_out = NotParsed
    /\ parse_out' = [fn |-> "parse_feedback_response", res |-> parse_feedback_response(raw_text)]
    /\ UNCHANGED <<storage, settings, response, last_selected, raw_text, inflight, counts, accounts, session>>

NextParse == ParseQuizResponse \/ ParseFeedbackResponse

SpecParse == InitParse /\ [][NextParse]_vars

----------------------------------------------------------------------------
(* Pipeline specification: the two entry points of quiz/ai_services.py    *)
(* under every combination of the three credential sources and every      *)
(* behaviour of the model.                                                *)

InitPipeline ==
    /\ EmptyStorage
    /\ settings \in Credentials
    /\ raw_text = <<>>
    /\ parse_out = NotParsed
    /\ Idle

GenerateQuizQuestions(pdf_text, model) ==
    /\ parse_out = NotParsed
    /\ raw_text' = model.text
    /\ parse_out' = [fn |-> "generate_quiz_questions", pdf_text |-> pdf_text,
                     model |-> model.kind,
                     out |-> generate_quiz_questions(settings, pdf_text, model)]
    /\ UNCHANGED <<storage, settings, response, last_selected, inflight, counts, accounts, session>>

GeneratePerformanceFeedback(model) ==
    /\ parse_out = NotParsed
    /\ raw_text' = model.text
    /\ parse_out' = [fn |-> "generate_performance_feedback", pdf_text |-> None,
                     model |-> model.kind,
                     out |-> generate_performance_feedback(settings, model)]
    /\ UNCHANGED <<storage, settings, response, last_selected, inflight, counts, accounts, session>>

NextPipeline ==
    \/ \E pdf_text \in TextContents, model \in GenerationModels :
           GenerateQuizQuestions(pdf_text, model)
    \/ \E model \in FeedbackModels : GeneratePerformanceFeedback(model)

SpecPipeline == InitPipeline /\ [][NextPipeline]_vars

----------------------------------------------------------------------------
(* Defaults specification: the two generation views answered by the model  *)
(* with a list of two question objects, each with its own fields missing.  *)

\* all fields present; none; no question text; no options object; no
\* correct_answer; options B, C, D and the explanation missing
DefaultedAtoms == {"qA", "q0", "qT", "qO", "qC", "qE"}

NextDefaults ==
    \/ \E user \in Users : upload_pdf(user, "notes.pdf", [readable |-> TRUE, pages |-> <<"page">>])
    \/ \E user \in Users, first \in DefaultedAtoms, second \in DefaultedAtoms :
           create_quiz_from_topic(user, "POST", "Biology", "Easy", "2",
                                  ModelSays(<<"[", first, second, "]">>))
    \/ \E user \in Users, first \in DefaultedAtoms, second \in DefaultedAtoms :
           create_quiz(user, 1, "POST", "Biology", "Easy", "2",
                       ModelSays(<<"[", first, second, "]">>))

SpecDefaults == Init /\ [][NextDefaults]_vars

----------------------------------------------------------------------------
(* Concurrent specification: submit_quiz requests of one learner for one   *)
(* quiz, run statement by statement.  No view opens a transaction, so      *)
(* every ORM call commits on its own and the calls of two requests         *)
(* interleave freely.  update_or_create is a lookup followed by an INSERT  *)
(* or an UPDATE; an INSERT that the uniqueness of (user, question) refuses *)
(* is followed by a second lookup and an UPDATE.                           *)

Requests == {"r1", "r2"}

\* the rows UserAnswer.objects.get(user, quiz, question) looks at
UserAnswer_matching(d, user, quiz_id, question_id) ==
    {a \in d.answers : a.user = user /\ a.quiz = quiz_id /\ a.question = question_id}

\* the INSERT without the uniqueness of (user, question)
UserAnswer_insert_unchecked(d, user, quiz_id, question_id, selected_answer, is_correct) ==
    Return(UserAnswer_create(d, user, quiz_id, question_id, selected_answer, is_correct))

\* the INSERT of update_or_create under unique_together = ['user', 'question']
UserAnswer_insert(d, user, quiz_id, question_id, selected_answer, is_correct) ==
    IF \E a \in d.answers : a.user = user /\ a.question = question_id
    THEN Raise("IntegrityError")
    ELSE Return(UserAnswer_create(d, user, quiz_id, question_id, selected_answer, is_correct))

\* obj.save() of the row the lookup returned
UserAnswer_save(d, pk, selected_answer, is_correct) ==
    [d EXCEPT !.answers =
        {IF a.id = pk THEN [a EXCEPT !.selected_answer = selected_answer,
                                     !.is_correct = is_correct]
         ELSE a : a \in @}]

EmptyDb ==
    [documents |-> {}, quizzes |-> {}, questions |-> {}, answers |-> {}, results |-> {},
     next_id |-> [document |-> 1, quiz |-> 1, question |-> 1, answer |-> 1, result |-> 1]]

\* the tables after u1's create_quiz_from_topic to which the model answered
\* with two questions
TwoQuestionQuiz ==
    LET d1 == PDFDocument_create(EmptyDb, "u1", "Topic", JStr("Topic"))
        d2 == Quiz_create(d1, "u1", 1, "Biology", "Easy", 2)
        saved == save_questions(d2, 1, <<AtomValue("qA"), AtomValue("qA")>>, 1)
    IN Quiz_complete(saved.db, 1)

\* the same after a submission that answered the first question with B
TwoQuestionQuizAnswered ==
    LET post == (1 :> JStr("B")) @@ (2 :> None)
        g == grade([db |-> TwoQuestionQuiz, score |-> 0, correct_count |-> 0, wrong_count |-> 0],
                   "u1", 1, quiz_questions_all(TwoQuestionQuiz, 1), post, 1)
    IN Result_create(g.db, "u1", 1, g.score, 2, g.correct_count, g.wrong_count,
                     percentage_of(g.score, 2), feedback_columns(KeepPracticingFeedback))

WorkingCredentials ==
    [GOOGLE_API_KEY |-> None, GEMINI_API_KEY |-> JStr("key"), env_GOOGLE_API_KEY |-> None]

\* what the two requests POST for a question: nothing, the correct label,
\* another label, the correct label in lower case
ConcurrentSelections == {None, JStr("A"), JStr("B"), JStr("a")}

InitConcurrent ==
    /\ \E d \in {TwoQuestionQuiz, TwoQuestionQuizAnswered} :
          /\ documents = d.documents
          /\ quizzes = d.quizzes
          /\ questions = d.questions
          /\ answers = d.answers
          /\ results = d.results
          /\ next_id = d.next_id
          /\ last_selected = [k \in {<<a.user, a.question>> : a \in d.answers} |-> "B"]
    /\ settings = WorkingCredentials
    /\ response = Resp("none", "", "none")
    /\ raw_text = <<>>
    /\ parse_out = NotParsed
    /\ counts = NoCounts
    /\ LoggedIn
    /\ \E posts \in [Requests -> [1..2 -> ConcurrentSelections]] :
          inflight = [r \in Requests |->
                         [user |-> "u1", quiz |-> 1, post |-> posts[r], pc |-> "start",
                          qs |-> <<>>, i |-> 1, pk |-> 0, score |-> 0, correct_count |-> 0,
                          wrong_count |-> 0, refused |-> FALSE, error |-> ""]]

\* the question the loop of request r is at and the value POSTed for it
question_of(r) == inflight[r].qs[inflight[r].i]
selected_answer_of(r) == inflight[r].post[question_of(r).id]

\* submit_quiz up to the loop: the quiz of the caller and its questions
submit_begin(r) ==
    /\ inflight[r].pc = "start"
    /\ IF ~\E q \in quizzes : q.id = inflight[r].quiz /\ q.user = inflight[r].user
       THEN inflight' = [inflight EXCEPT ![r].pc = "done", ![r].error = "404"]
       ELSE inflight' = [inflight EXCEPT ![r].pc = "loop",
                                         ![r].qs = quiz_questions_all(db, inflight[r].quiz)]
    /\ UNCHANGED <<storage, settings, response, last_selected, raw_text, parse_out, counts, accounts, session>>

\* one turn of the loop up to the lookup of update_or_create: the counters,
\* then UserAnswer.objects.get
update_or_create_get(r) ==
    /\ inflight[r].pc = "loop"
    /\ inflight[r].i <= Len(inflight[r].qs)
    /\ IF ~Truthy(selected_answer_of(r))
       THEN inflight' = [inflight EXCEPT ![r].i = @ + 1]
       ELSE LET is_correct == is_correct_of(selected_answer_of(r).s, question_of(r))
                found == UserAnswer_matching(db, inflight[r].user, inflight[r].quiz,
                                             question_of(r).id)
                counted == [inflight[r] EXCEPT
                               !.score = IF is_correct THEN @ + 1 ELSE @,
                               !.correct_count = IF is_correct THEN @ + 1 ELSE @,
                               !.wrong_count = IF is_correct THEN @ ELSE @ + 1]
            IN inflight' =
                   [inflight EXCEPT ![r] =
                       IF found = {} THEN [counted EXCEPT !.pc = "insert"]
                       ELSE IF Cardinality(found) = 1
                       THEN [counted EXCEPT !.pc = "save",
                                            !.pk = (CHOOSE a \in found : TRUE).id]
                       ELSE [counted EXCEPT !.pc = "failed",
                                            !.error = "MultipleObjectsReturned"]]
    /\ UNCHANGED <<storage, settings, response, last_selected, raw_text, parse_out, counts, accounts, session>>

\* the INSERT after a lookup that found no row
update_or_create_insert(r) ==
    /\ inflight[r].pc = "insert"
    /\ LET selected_answer == selected_answer_of(r).s
           is_correct == is_correct_of(selected_answer, question_of(r))
           created == UserAnswer_insert(db, inflight[r].user, inflight[r].quiz,
                                        question_of(r).id, selected_answer, is_correct)
       IN IF created.kind = "raise"
          THEN /\ inflight' = [inflight EXCEPT ![r].pc = "get_again", ![r].refused = TRUE]
               /\ UNCHANGED <<storage, last_selected>>
          ELSE /\ Commit(created.value)
               /\ last_selected' = (<<inflight[r].user, question_of(r).id>> :> selected_answer)
                                       @@ last_selected
               /\ inflight' = [inflight EXCEPT ![r].pc = "loop", ![r].i = @ + 1]
    /\ UNCHANGED <<settings, response, raw_text, parse_out, counts, accounts, session>>

\* the second lookup, after the INSERT was refused
update_or_create_get_again(r) ==
    /\ inflight[r].pc = "get_again"
    /\ LET found == UserAnswer_matching(db, inflight[r].user, inflight[r].quiz,
                                        question_of(r).id)
       IN inflight' =
              [inflight EXCEPT ![r] =
                  IF Cardinality(found) = 1
                  THEN [@ EXCEPT !.pc = "save", !.pk = (CHOOSE a \in found : TRUE).id]
                  ELSE [@ EXCEPT !.pc = "failed", !.error = "IntegrityError"]]
    /\ UNCHANGED <<storage, settings, response, last_selected, raw_text, parse_out, counts, accounts, session>>

\* the UPDATE of the row a lookup returned
update_or_create_save(r) ==
    /\ inflight[r].pc = "save"
    /\ LET selected_answer == selected_answer_of(r).s
           is_correct == is_correct_of(selected_answer, question_of(r))
       IN /\ Commit(UserAnswer_save(db, inflight[r].pk, selected_answer, is_correct))
          /\ last_selected' = (<<inflight[r].user, question_of(r).id>> :> selected_answer)
                                  @@ last_selected
    /\ inflight' = [inflight EXCEPT ![r].pc = "loop", ![r].i = @ + 1]
    /\ UNCHANGED <<settings, response, raw_text, parse_out, counts, accounts, session>>

\* submit_quiz after the loop: percentage, feedback, the Result row
submit_finish(r, model) ==
    /\ inflight[r].pc = "loop"
    /\ inflight[r].i > Len(inflight[r].qs)
    /\ LET total_questions == Len(inflight[r].qs)
           f == generate_performance_feedback(settings, model)
           feedback == feedback_or_fallback(f)
       IN IF feedback.kind = "raise"
          THEN /\ inflight' = [inflight EXCEPT ![r].pc = "failed", ![r].error = feedback.exc]
               /\ response' = [Resp("submit_quiz", inflight[r].user, "500")
                                   EXCEPT !.error = feedback.exc, !.quiz = inflight[r].quiz]
               /\ UNCHANGED <<storage, session>>
          ELSE /\ Commit(Result_create(db, inflight[r].user, inflight[r].quiz,
                             inflight[r].score, total_questions, inflight[r].correct_count,
                             inflight[r].wrong_count,
                             percentage_of(inflight[r].score, total_questions),
                             feedback_columns(feedback.value)))
               /\ inflight' = [inflight EXCEPT ![r].pc = "done"]
               /\ response' = [Resp("submit_quiz", inflight[r].user, "graded")
                                   EXCEPT !.calls = f.calls, !.quiz = inflight[r].quiz,
                                          !.result = db.next_id.result]
               /\ session' = [session EXCEPT
                                  ![inflight[r].user].last_result_id = db.next_id.result]
    /\ UNCHANGED <<settings, last_selected, raw_text, parse_out, counts, accounts>>

NextConcurrent ==
    \/ \E r \in Requests : submit_begin(r)
    \/ \E r \in Requests : update_or_create_get(r)
    \/ \E r \in Requests : update_or_create_insert(r)
    \/ \E r \in Requests : update_or_create_get_again(r)
    \/ \E r \in Requests : update_or_create_save(r)
    \/ \E r \in Requests : submit_finish(r, ModelRaises)

SpecConcurrent == InitConcurrent /\ [][NextConcurrent]_vars

----------------------------------------------------------------------------
(* Grading specification: submissions for a stored two-question quiz under *)
(* every deployed configuration.  The tables outlive the process, so the   *)
(* quiz may have been generated under a configuration that had a key and   *)
(* be graded under one that has none.                                      *)

InitGrading ==
    /\ documents = TwoQuestionQuiz.documents
    /\ quizzes = TwoQuestionQuiz.quizzes
    /\ questions = TwoQuestionQuiz.questions
    /\ answers = TwoQuestionQuiz.answers
    /\ results = TwoQuestionQuiz.results
    /\ next_id = TwoQuestionQuiz.next_id
    /\ settings \in DeployedCredentials
    /\ response = Resp("none", "", "none")
    /\ last_selected = <<>>
    /\ raw_text = <<>>
    /\ parse_out = NotParsed
    /\ Idle

NextGrading ==
    \/ \E user \in Users, quiz_id \in 1..MaxQuizzes, model \in FeedbackModels :
           \E post \in [QuestionIds(quiz_id) -> Selections] :
               submit_quiz(user, quiz_id, "POST", post, model)
    \/ \E user \in Users, quiz_id \in 1..MaxQuizzes :
           submit_quiz(user, quiz_id, "GET", <<>>, ModelRaises)

SpecGrading == InitGrading /\ [][NextGrading]_vars

----------------------------------------------------------------------------
(* Generation specification: one generation request of u1 run statement by *)
(* statement, every ORM call committing on its own, while submit_quiz      *)
(* requests are served in between.  The request thread runs to the end of  *)
(* the view: its steps are weakly fair.                                    *)

\* the tables after u1 uploaded a document with text
UploadedDocument ==
    PDFDocument_save_text(PDFDocument_create(EmptyDb, "u1", "notes.pdf", None), 1,
                          JStr("pdf text"))

InitGeneration ==
    /\ documents = UploadedDocument.documents
    /\ quizzes = UploadedDocument.quizzes
    /\ questions = UploadedDocument.questions
    /\ answers = UploadedDocument.answers
    /\ results = UploadedDocument.results
    /\ next_id = UploadedDocument.next_id
    /\ settings \in DeployedCredentials
    /\ response = Resp("none", "", "none")
    /\ last_selected = <<>>
    /\ raw_text = <<>>
    /\ parse_out = NotParsed
    /\ counts = NoCounts
    /\ LoggedIn
    /\ \E view \in {"create_quiz", "create_quiz_from_topic"} :
          inflight = [r \in {"g1"} |->
                         [view |-> view, user |-> "u1", pc |-> "start", quiz |-> 0,
                          items |-> <<>>, i |-> 1, outcome |-> "", error |-> ""]]

\* the view up to Quiz.objects.create: the POST is valid; the topic view
\* first creates its placeholder document
generation_begin(r) ==
    /\ inflight[r].pc = "start"
    /\ IF inflight[r].view = "create_quiz_from_topic"
       THEN Commit(Quiz_create(PDFDocument_create(db, inflight[r].user, "Topic", JStr("Topic")),
                               inflight[r].user, db.next_id.document, "Biology", "Easy", 2))
       ELSE Commit(Quiz_create(db, inflight[r].user, 1, "Biology", "Easy", 2))
    /\ inflight' = [inflight EXCEPT ![r].pc = "generate", ![r].quiz = db.next_id.quiz]
    /\ UNCHANGED <<settings, response, last_selected, raw_text, parse_out, counts, accounts, session>>

\* the text the view hands to generate_quiz_questions
pdf_text_of(r) ==
    IF inflight[r].view = "create_quiz_from_topic" THEN JStr("Generate questions about")
    ELSE JStr("pdf text")

\* what the for statement receives: the exception of the call, or of iter()
questions_data_of(g) == IF g.res.kind = "raise" THEN g.res ELSE python_iter(g.res.value)

\* generate_quiz_questions and the start of the for loop
generation_call(r, model) ==
    /\ inflight[r].pc = "generate"
    /\ \E items \in {questions_data_of(generate_quiz_questions(settings, pdf_text_of(r), model))} :
          inflight' = [inflight EXCEPT ![r] =
                          IF items.kind = "raise"
                          THEN [@ EXCEPT !.pc = "except", !.error = items.exc]
                          ELSE [@ EXCEPT !.pc = "loop", !.items = items.value, !.i = 1]]
    /\ UNCHANGED <<storage, settings, response, last_selected, raw_text, parse_out, counts, accounts, session>>

\* one Question.objects.create of the loop
generation_save(r) ==
    /\ inflight[r].pc = "loop"
    /\ inflight[r].i <= Len(inflight[r].items)
    /\ \E created \in {Question_create(db, inflight[r].quiz, inflight[r].items[inflight[r].i],
                                         inflight[r].i)} :
          IF created.kind = "raise"
          THEN /\ inflight' = [inflight EXCEPT ![r].pc = "except", ![r].error = created.exc]
               /\ UNCHANGED storage
          ELSE /\ Commit(created.value)
               /\ inflight' = [inflight EXCEPT ![r].i = @ + 1]
    /\ UNCHANGED <<settings, response, last_selected, raw_text, parse_out, counts, accounts, session>>

\* quiz.is_completed = True; quiz.save()
generation_complete(r) ==
    /\ inflight[r].pc = "loop"
    /\ inflight[r].i > Len(inflight[r].items)
    /\ Commit(Quiz_complete(db, inflight[r].quiz))
    /\ inflight' = [inflight EXCEPT ![r].pc = "done", ![r].outcome = "completed"]
    /\ UNCHANGED <<settings, response, last_selected, raw_text, parse_out, counts, accounts, session>>

\* the except clauses without quiz.delete()
generation_except_keep_quiz(r) ==
    /\ inflight[r].pc = "except"
    /\ inflight' = [inflight EXCEPT ![r].pc = "done", ![r].outcome = "generation_failed"]
    /\ UNCHANGED <<storage, settings, response, last_selected, raw_text, parse_out, counts, accounts, session>>

\* either except clause: quiz.delete()
generation_except(r) ==
    /\ inflight[r].pc = "except"
    /\ Commit(Quiz_delete(db, {inflight[r].quiz}))
    /\ Forget(Quiz_delete(db, {inflight[r].quiz}))
    /\ inflight' = [inflight EXCEPT ![r].pc = "done", ![r].outcome = "generation_failed"]
    /\ UNCHANGED <<settings, response, raw_text, parse_out, counts, accounts, session>>

\* the statements of the generation requests
GenerationStep ==
    \/ \E r \in DOMAIN inflight : generation_begin(r)
    \/ \E r \in DOMAIN inflight, model \in GenerationModels : generation_call(r, model)
    \/ \E r \in DOMAIN inflight : generation_save(r)
    \/ \E r \in DOMAIN inflight : generation_complete(r)
    \/ \E r \in DOMAIN inflight : generation_except(r)

\* a submit_quiz request served in between
SubmitDuringGeneration ==
    \E user \in Users, quiz_id \in 1..MaxQuizzes :
        \E post \in [QuestionIds(quiz_id) -> {None, JStr("A"), JStr("B")}] :
            /\ submit_quiz(user, quiz_id, "POST", post, ModelRaises)
            /\ UNCHANGED inflight

NextGeneration == GenerationStep \/ SubmitDuringGeneration

SpecGeneration == InitGeneration /\ [][NextGeneration]_vars /\ WF_vars(GenerationStep)

----------------------------------------------------------------------------
(* Percentage specification: the two percentage computations applied to    *)
(* every pair of counts up to MaxTotal questions.                          *)

InitPercentage ==
    /\ EmptyStorage
    /\ settings = WorkingCredentials
    /\ raw_text = <<>>
    /\ parse_out = NotParsed
    /\ inflight = <<>>
    /\ LoggedIn
    /\ \E total_questions \in 0..MaxTotal : \E correct_count \in 0..total_questions :
          counts = [total_questions |-> total_questions, correct_count |-> correct_count]

\* submit_quiz: the percentage column of the Result row
ResultPercentage ==
    /\ parse_out = NotParsed
    /\ parse_out' = [fn |-> "Result.percentage",
                     value |-> percentage_of(counts.correct_count, counts.total_questions)]
    /\ UNCHANGED <<storage, settings, response, last_selected, raw_text, inflight, counts, accounts, session>>

\* generate_feedback_prompt: the percentage written into the prompt
PromptPercentage ==
    /\ parse_out = NotParsed
    /\ parse_out' = [fn |-> "generate_feedback_prompt",
                     value |-> prompt_percentage(counts.correct_count, counts.total_questions)]
    /\ UNCHANGED <<storage, settings, response, last_selected, raw_text, inflight, counts, accounts, session>>

NextPercentage == ResultPercentage \/ PromptPercentage

SpecPercentage == InitPercentage /\ [][NextPercentage]_vars

----------------------------------------------------------------------------
(* Accounts specification: the login views and the user administration of  *)
(* views.py.  A request comes from a browser; request.user is the user its *)
(* session names, as long as that account is active.                       *)

Browsers == {"b1", "b2"}

\* a learner, an administrator, an account with is_superuser alone and one
\* with is_staff alone
DeployedAccounts ==
    [name \in {"u1", "admin", "root", "helper"} |->
        CASE name = "u1" -> Account(TRUE, FALSE, FALSE, "Approved")
          [] name = "admin" -> Account(TRUE, TRUE, TRUE, "Approved")
          [] name = "root" -> Account(TRUE, FALSE, TRUE, "Approved")
          [] name = "helper" -> Account(TRUE, TRUE, FALSE, "Approved")]

\* every account's password
Password == "pw"

Usernames == {"", "nobody"} \cup DOMAIN DeployedAccounts
Passwords == {"", "bad", Password}

\* the user_id of the administration requests: a learner, an administrator,
\* no account
Targets == {"u1", "admin", "nobody"}

InitAccounts ==
    /\ documents = {}
    /\ quizzes = {}
    /\ questions = {}
    /\ answers = {}
    /\ results = {}
    /\ next_id = [document |-> 1, quiz |-> 1, question |-> 1, answer |-> 1, result |-> 1]
    /\ settings \in {WorkingCredentials}
    /\ response = Resp("none", "", "none")
    /\ last_selected = <<>>
    /\ raw_text = <<>>
    /\ parse_out = NotParsed
    /\ inflight = <<>>
    /\ counts = NoCounts
    /\ accounts = DeployedAccounts
    /\ session = [b \in Browsers |-> [user |-> "", last_result_id |-> 0]]

\* request.user: "" stands for AnonymousUser.  The session of an account
\* that is no longer active loads no user.
request_user(b) ==
    IF session[b].user # "" /\ accounts[session[b].user].is_active THEN session[b].user
    ELSE ""

\* the role test with is_superuser left out
is_admin_staff_only(name) == accounts[name].is_staff

\* user.is_staff or user.is_superuser
is_admin(name) == accounts[name].is_staff \/ accounts[name].is_superuser

\* django.contrib.auth.authenticate with the ModelBackend: the user of that
\* name when the password matches and the account is active, else None ("")
authenticate(username, password) ==
    IF username \in DOMAIN accounts /\ password = Password /\ accounts[username].is_active
    THEN username ELSE ""

\* django.contrib.auth.login: the session of another user is flushed first
login(b, name) ==
    session' = [session EXCEPT ![b] =
                   [user |-> name,
                    last_result_id |-> IF @.user \in {"", name} THEN @.last_result_id ELSE 0]]

\* user_login
user_login(b, method, username, password) ==
    /\ IF request_user(b) # ""
       THEN /\ response' = Resp("user_login", username, "redirect")
            /\ UNCHANGED session
       ELSE IF method # "POST"
       THEN /\ response' = Resp("user_login", username, "form")
            /\ UNCHANGED session
       ELSE IF username = "" \/ password = ""
       THEN /\ response' = Resp("user_login", username, "missing_field")
            /\ UNCHANGED session
       ELSE IF username \in DOMAIN accounts /\ is_admin(username)
       THEN /\ response' = Resp("user_login", username, "admins_use_admin_login")
            /\ UNCHANGED session
       ELSE IF username \in DOMAIN accounts /\ ~accounts[username].is_active
       THEN /\ response' = Resp("user_login", username, "not_active")
            /\ UNCHANGED session
       ELSE IF authenticate(username, password) = ""
       THEN /\ response' = Resp("user_login", username, "invalid")
            /\ UNCHANGED session
       ELSE IF is_admin(authenticate(username, password))
       THEN /\ response' = Resp("user_login", username, "admins_use_admin_login")
            /\ UNCHANGED session
       ELSE /\ response' = Resp("user_login", username, "logged_in")
            /\ login(b, username)
    /\ UNCHANGED <<storage, settings, last_selected, raw_text, parse_out, inflight, counts,
                   accounts>>

\* admin_login
admin_login(b, method, username, password) ==
    /\ IF request_user(b) # ""
       THEN /\ response' = Resp("admin_login", username, "redirect")
            /\ UNCHANGED session
       ELSE IF method # "POST"
       THEN /\ response' = Resp("admin_login", username, "form")
            /\ UNCHANGED session
       ELSE IF username = "" \/ password = ""
       THEN /\ response' = Resp("admin_login", username, "missing_field")
            /\ UNCHANGED session
       ELSE IF username \in DOMAIN accounts /\ ~accounts[username].is_active
       THEN /\ response' = Resp("admin_login", username, "not_active")
            /\ UNCHANGED session
       ELSE IF username \in DOMAIN accounts /\ ~is_admin(username)
       THEN /\ response' = Resp("admin_login", username, "administrators_only")
            /\ UNCHANGED session
       ELSE IF authenticate(username, password) = ""
       THEN /\ response' = Resp("admin_login", username, "invalid")
            /\ UNCHANGED session
       ELSE IF ~is_admin(authenticate(username, password))
       THEN /\ response' = Resp("admin_login", username, "administrators_only")
            /\ UNCHANGED session
       ELSE /\ response' = Resp("admin_login", username, "logged_in")
            /\ login(b, username)
    /\ UNCHANGED <<storage, settings, last_selected, raw_text, parse_out, inflight, counts,
                   accounts>>

\* user_logout and admin_logout: django.contrib.auth.logout flushes the
\* session
user_logout(b) ==
    /\ response' = Resp("user_logout", request_user(b), "logged_out")
    /\ session' = [session EXCEPT ![b] = [user |-> "", last_result_id |-> 0]]
    /\ UNCHANGED <<storage, settings, last_selected, raw_text, parse_out, inflight, counts,
                   accounts>>

\* the start of approve_user, reject_user and toggle_user_status: "" when
\* the request goes on to change the target
refused_administration(b, target) ==
    IF request_user(b) = "" THEN "login_required"
    ELSE IF ~accounts[request_user(b)].is_staff THEN "denied"
    ELSE IF target \notin DOMAIN accounts THEN "404"
    ELSE IF target = request_user(b) THEN "own_account"
    ELSE ""

\* approve_user
approve_user(b, target) ==
    /\ IF refused_administration(b, target) # ""
       THEN /\ response' = Resp("approve_user", target, refused_administration(b, target))
            /\ UNCHANGED accounts
       ELSE /\ response' = Resp("approve_user", target, "approved")
            /\ accounts' = [accounts EXCEPT ![target].status = "Approved",
                                            ![target].is_active = TRUE]
    /\ UNCHANGED <<storage, settings, last_selected, raw_text, parse_out, inflight, counts,
                   session>>

\* reject_user
reject_user(b, target) ==
    /\ IF refused_administration(b, target) # ""
       THEN /\ response' = Resp("reject_user", target, refused_administration(b, target))
            /\ UNCHANGED accounts
       ELSE /\ response' = Resp("reject_user", target, "rejected")
            /\ accounts' = [accounts EXCEPT ![target].status = "Rejected",
                                            ![target].is_active = TRUE]
    /\ UNCHANGED <<storage, settings, last_selected, raw_text, parse_out, inflight, counts,
                   session>>

\* toggle_user_status
toggle_user_status(b, target) ==
    /\ IF refused_administration(b, target) # ""
       THEN /\ response' = Resp("toggle_user_status", target,
                                refused_administration(b, target))
            /\ UNCHANGED accounts
       ELSE /\ response' = Resp("toggle_user_status", target, "toggled")
            /\ accounts' = [accounts EXCEPT ![target].is_active = ~@]
    /\ UNCHANGED <<storage, settings, last_selected, raw_text, parse_out, inflight, counts,
                   session>>

NextAccounts ==
    \/ \E b \in Browsers, method \in {"GET", "POST"}, username \in Usernames,
           password \in Passwords : user_login(b, method, username, password)
    \/ \E b \in Browsers, method \in {"GET", "POST"}, username \in Usernames,
           password \in Passwords : admin_login(b, method, username, password)
    \/ \E b \in Browsers : user_logout(b)
    \/ \E b \in Browsers, target \in Targets : approve_user(b, target)
    \/ \E b \in Browsers, target \in Targets : reject_user(b, target)
    \/ \E b \in Browsers, target \in Targets : toggle_user_status(b, target)

SpecAccounts == InitAccounts /\ [][NextAccounts]_vars

----------------------------------------------------------------------------
(* Claims about the parsers (SpecParse) *)

FeedbackKeys == {"strength_analysis", "weakness_analysis", "suggestions"}

NonEmptyString(v) == v.t = "str" /\ v.s # ""

QuizParsed == parse_out.fn = "parse_quiz_response"
FeedbackParsed == parse_out.fn = "parse_feedback_response"

\* C6 as stated: parse_feedback returns, for every input, a triple of three
\* non-empty strings.
C6_FeedbackAlwaysNonEmpty ==
    FeedbackParsed =>
        /\ parse_out.res.kind = "return"
        /\ \A key \in FeedbackKeys : NonEmptyString(parse_out.res.value[key])

\* C6 amended: parse_feedback never raises and always returns the three
\* fields.  They are three generic non-empty sentences when the text has no
\* brace-delimited substring or that substring does not decode.  When it
\* decodes, each field is independently the decoded object's value for that
\* key, and the empty string when the key is absent.
C6_FeedbackNeverFails ==
    FeedbackParsed =>
        /\ parse_out.res.kind = "return"
        /\ LET m == re_search(raw_text, "{", "}")
               out == parse_out.res.value
           IN IF ~m.found \/ ~json_loads_group(m).ok
              THEN \A key \in FeedbackKeys : NonEmptyString(out[key])
              ELSE LET obj == json_loads_group(m).v
                   IN \A key \in FeedbackKeys :
                        IF key \in DOMAIN obj.m THEN out[key] = obj.m[key]
                        ELSE out[key] = JStr("")

\* a decoded object with one of the keys present and another one absent
C6_Witness ==
    /\ FeedbackParsed
    /\ LET m == re_search(raw_text, "{", "}")
       IN /\ m.found
          /\ json_loads_group(m).ok
          /\ "strength_analysis" \in DOMAIN json_loads_group(m).v.m
          /\ "suggestions" \notin DOMAIN json_loads_group(m).v.m
          /\ NonEmptyString(parse_out.res.value.strength_analysis)
          /\ parse_out.res.value.suggestions = JStr("")

IsQuestionList(v) ==
    /\ v.t = "arr"
    /\ \A i \in 1..Len(v.items) : v.items[i].t = "obj"

\* C7: parse_questions either returns a list of question objects or fails
\* with the parse failure (ValueError), never anything else.
C7_ListOrParseFailure ==
    QuizParsed =>
        \/ parse_out.res.kind = "return" /\ IsQuestionList(parse_out.res.value)
        \/ parse_out.res.kind = "raise" /\ parse_out.res.exc = "ValueError"

\* the bracketed substring exists, does not decode, and the whole text is a
\* JSON object
BracketedFailsWholeDecodes ==
    LET m == re_search(raw_text, "[", "]")
        whole == json_loads(raw_text)
    IN /\ m.found
       /\ ~json_loads_group(m).ok
       /\ whole.ok
       /\ whole.v.t = "obj"

\* C8 as stated: when the bracketed substring does not decode, the whole
\* text is decoded and its questions field returned.
C8_FallbackAfterDecodeFailure ==
    (QuizParsed /\ BracketedFailsWholeDecodes) =>
        /\ parse_out.res.kind = "return"
        /\ parse_out.res.value = Get(json_loads(raw_text).v, "questions", json_loads(raw_text).v)

\* C8 amended: the whole-text fallback is taken only when the text has no
\* bracketed substring; then a text that decodes to an object yields its
\* questions field (the object itself without that field).  When the
\* bracketed substring exists and does not decode, parse_questions fails
\* with the parse failure without looking at the whole text.
C8_FallbackOnlyWhenAbsent ==
    QuizParsed =>
        LET m == re_search(raw_text, "[", "]")
            whole == json_loads(raw_text)
        IN /\ (m.found /\ ~json_loads_group(m).ok) =>
                  /\ parse_out.res.kind = "raise"
                  /\ parse_out.res.exc = "ValueError"
           /\ (~m.found /\ whole.ok /\ whole.v.t = "obj") =>
                  /\ parse_out.res.kind = "return"
                  /\ parse_out.res.value = Get(whole.v, "questions", whole.v)

C8_Witness ==
    /\ QuizParsed
    /\ BracketedFailsWholeDecodes
    /\ parse_out.res.kind = "raise"

----------------------------------------------------------------------------
(* Claims about the credential guard (SpecPipeline) *)

PipelineRan == parse_out.fn \in {"generate_quiz_questions", "generate_performance_feedback"}

\* the resolved credential is absent, empty or the placeholder
UnusableCredential ==
    LET api_key == resolve_api_key(settings)
    IN \/ api_key.t = "None"
       \/ api_key.t = "str" /\ api_key.s \in {"", PLACEHOLDER}

\* C4: on both paths, with an absent, empty or placeholder credential the
\* model is not invoked and the call fails with APIKeyError; whenever the
\* model was invoked, it was invoked once the check had accepted the key.
C4_NoModelCallWithoutCredential ==
    PipelineRan =>
        /\ UnusableCredential =>
              /\ parse_out.out.calls = <<>>
              /\ parse_out.out.res.kind = "raise"
              /\ parse_out.out.res.exc = "APIKeyError"
        /\ \A i \in 1..Len(parse_out.out.calls) :
              /\ parse_out.out.calls[i].t = "str"
              /\ parse_out.out.calls[i].s \notin {"", PLACEHOLDER}

\* the placeholder is what the sources resolve to, although a later source
\* holds a real key
C4_Witness ==
    /\ parse_out.fn = "generate_performance_feedback"
    /\ settings.GOOGLE_API_KEY = JStr(PLACEHOLDER)
    /\ settings.GEMINI_API_KEY = JStr("key")
    /\ parse_out.out.calls = <<>>
    /\ parse_out.out.res.kind = "raise"

----------------------------------------------------------------------------
(* Claims about the requests (Spec) *)

QuestionsOf(quiz_id) == {q \in questions : q.quiz = quiz_id}

\* C1: after a generation request that failed, neither the quiz the request
\* created nor any question created for it is stored.
C1_FailedGenerationLeavesNoQuiz ==
    response.outcome = "generation_failed" =>
        /\ ~\E q \in quizzes : q.id = response.quiz
        /\ QuestionsOf(response.quiz) = {}

\* a question had been saved when a later item of the list raised
C1_Witness ==
    /\ response.outcome = "generation_failed"
    /\ response.error = "AttributeError"
    /\ next_id.question > 1
    /\ questions = {}
    /\ quizzes = {}

\* C2: every completed quiz has exactly number_of_questions questions.
C2_CompletedQuizHasRequestedCount ==
    \A q \in quizzes :
        q.is_completed => Cardinality(QuestionsOf(q.id)) = q.number_of_questions

\* C3: a create_quiz_from_topic request whose generation fails leaves the
\* set of stored documents as it was before the request.
C3_FailedTopicQuizRestoresDocuments ==
    [][(response'.view = "create_quiz_from_topic" /\ response'.outcome = "generation_failed")
           => documents' = documents]_vars

C9_WrongIsTotalMinusCorrect ==
    \A r \in results : r.wrong_answers = r.total_questions - r.correct_answers

\* C9 amended: a question with no submitted answer is counted neither as
\* correct nor as wrong.  In the Result written by submit_quiz,
\* correct_answers and wrong_answers count the answered questions whose
\* selection equals, respectively differs from, the correct answer, so
\* correct_answers + wrong_answers is the number of answered questions and
\* at most total_questions.
C9_WrongCountsAnsweredOnly ==
    (response.view = "submit_quiz" /\ response.outcome = "graded") =>
        \A r \in results :
            r.id = response.result =>
                LET qs == QuestionsOf(response.quiz)
                    right == {q \in qs : q.id \in DOMAIN response.selected
                                         /\ response.selected[q.id] = q.correct_answer}
                    wrong == {q \in qs : q.id \in DOMAIN response.selected
                                         /\ response.selected[q.id] # q.correct_answer}
                IN /\ r.total_questions = Cardinality(qs)
                   /\ r.correct_answers = Cardinality(right)
                   /\ r.wrong_answers = Cardinality(wrong)
                   /\ r.correct_answers + r.wrong_answers = Cardinality(DOMAIN response.selected)
                   /\ r.correct_answers + r.wrong_answers <= r.total_questions

\* one question answered wrongly, one left out
C9_Witness ==
    /\ response.view = "submit_quiz"
    /\ response.outcome = "graded"
    /\ \E r \in results :
          /\ r.id = response.result
          /\ r.total_questions = 2
          /\ r.correct_answers = 0
          /\ r.wrong_answers = 1

AnswersOf(user, question_id) == {a \in answers : a.user = user /\ a.question = question_id}

\* C10: at most one Answer per (learner, question), and it holds the
\* selection of the latest submission that answered the question.
C10_OneAnswerHoldingLatestSelection ==
    \A user \in Users : \A q \in questions :
        /\ Cardinality(AnswersOf(user, q.id)) <= 1
        /\ <<user, q.id>> \in DOMAIN last_selected <=> AnswersOf(user, q.id) # {}
        /\ \A a \in AnswersOf(user, q.id) : a.selected_answer = last_selected[<<user, q.id>>]

\* a one-question quiz answered correctly by the first submission and
\* wrongly by the second: one row, created once, holding the second choice
C10_Witness ==
    /\ Cardinality(questions) = 1
    /\ next_id.answer = 2
    /\ \E a \in answers : a.selected_answer = "B" /\ ~a.is_correct
    /\ \E r1, r2 \in results :
          /\ r1.id < r2.id
          /\ r1.user = r2.user
          /\ r1.quiz = r2.quiz
          /\ r1.correct_answers = 1
          /\ r2.wrong_answers = 1

----------------------------------------------------------------------------
(* Claims about concurrent submissions (SpecConcurrent) *)

AllDone == \A r \in DOMAIN inflight : inflight[r].pc \in {"done", "failed"}

\* the requests that POSTed a selection for the question
Answering(question_id) ==
    {r \in DOMAIN inflight : Truthy(inflight[r].post[question_id])}

\* C11: two submit_quiz requests of one learner for one quiz, their upserts
\* interleaved in any order: no request fails on the uniqueness of
\* (user, question); there is never more than one Answer per pair and the
\* one there holds the last selection written, with its correctness flag;
\* when both requests are over, every question one of them answered has
\* exactly one Answer, whose selection is one of those the requests POSTed.
C11_ConcurrentUpsertsLastWriteWins ==
    /\ \A r \in DOMAIN inflight :
          /\ inflight[r].pc # "failed"
          /\ inflight[r].error \notin {"IntegrityError", "MultipleObjectsReturned"}
    /\ inflight # <<>> =>
          \A q \in questions : \A user \in Users :
              /\ Cardinality(AnswersOf(user, q.id)) <= 1
              /\ \A a \in AnswersOf(user, q.id) :
                    /\ a.selected_answer = last_selected[<<user, q.id>>]
                    /\ a.is_correct = (a.selected_answer = q.correct_answer)
    /\ (inflight # <<>> /\ AllDone) =>
          \A q \in questions :
              Answering(q.id) # {} =>
                  /\ Cardinality(AnswersOf("u1", q.id)) = 1
                  /\ \A a \in AnswersOf("u1", q.id) :
                        \E r \in Answering(q.id) : a.selected_answer = inflight[r].post[q.id].s

\* both requests are over; they POSTed different selections for a question
\* that had no Answer, both looked it up before either wrote, one INSERT
\* was refused, and the row holds the selection of the refused request
C11_Witness ==
    /\ inflight # <<>>
    /\ AllDone
    /\ \E r1, r2 \in DOMAIN inflight : \E q \in questions :
          /\ r1 # r2
          /\ inflight[r1].refused
          /\ ~inflight[r2].refused
          /\ Truthy(inflight[r1].post[q.id])
          /\ Truthy(inflight[r2].post[q.id])
          /\ inflight[r1].post[q.id] # inflight[r2].post[q.id]
          /\ \E a \in AnswersOf("u1", q.id) : a.selected_answer = inflight[r1].post[q.id].s
          /\ Cardinality(results) >= 2

----------------------------------------------------------------------------
(* Claims about the percentage (SpecPercentage) *)

\* C12: the percentage stored in a Result is 0 when total_questions is 0,
\* and otherwise the multiple of 0.01 nearest to 100 * correct / total (at
\* most half a hundredth away from it); the percentage of the feedback
\* prompt is 0 when total_questions is 0 and 100 * correct / total otherwise.
C12_PercentageGuardedAndRounded ==
    /\ parse_out.fn = "Result.percentage" =>
          IF counts.total_questions = 0 THEN parse_out.value = 0
          ELSE LET exact == 10000 * counts.correct_count
                   stored == parse_out.value * counts.total_questions
                   diff == IF stored >= exact THEN stored - exact ELSE exact - stored
               IN /\ 2 * diff <= counts.total_questions
                  /\ parse_out.value \in 0..10000
    /\ parse_out.fn = "generate_feedback_prompt" =>
          IF counts.total_questions = 0 THEN parse_out.value.num = 0
          ELSE parse_out.value.num * counts.total_questions
                   = 100 * counts.correct_count * parse_out.value.den

\* a quiz without questions: the stored percentage is 0
C12_Witness ==
    /\ parse_out.fn = "Result.percentage"
    /\ counts.total_questions = 0
    /\ parse_out.value = 0

----------------------------------------------------------------------------
(* Claims about generation (Spec, SpecViews) *)

OptionLabels == {"A", "B", "C", "D"}

\* a question draft with a text for each of the four options and a correct
\* answer among the four labels
WellFormedDraft(v) ==
    /\ v.t = "obj"
    /\ "options" \in DOMAIN v.m
    /\ v.m["options"].t = "obj"
    /\ \A label \in OptionLabels :
          /\ label \in DOMAIN v.m["options"].m
          /\ NonEmptyString(v.m["options"].m[label])
    /\ "correct_answer" \in DOMAIN v.m
    /\ v.m["correct_answer"].t = "str"
    /\ v.m["correct_answer"].s \in OptionLabels

WellFormedQuestion(q) ==
    /\ q.correct_answer \in OptionLabels
    /\ q.option_a # ""
    /\ q.option_b # ""
    /\ q.option_c # ""
    /\ q.option_d # ""

\* C13: a generation that succeeds returns exactly the requested number of
\* drafts, each with four non-empty options and a correct answer in A-D; one
\* that fails returns no draft; no stored Question has a correct answer
\* outside A-D or an empty option.
C13_GenerationReturnsWellFormedDrafts ==
    /\ response.outcome = "completed" =>
          /\ Len(response.drafts) = response.generation[1].num_questions
          /\ \A i \in 1..Len(response.drafts) : WellFormedDraft(response.drafts[i])
    /\ response.outcome = "generation_failed" =>
          /\ response.drafts = <<>>
          /\ QuestionsOf(response.quiz) = {}
    /\ \A q \in questions : WellFormedQuestion(q)

\* C14: generate_quiz_questions is never called with a difficulty outside
\* Easy / Medium / Hard, a count outside 1..50 or an empty subject.
C14_InvalidInputNeverReachesOrchestrator ==
    \A i \in 1..Len(response.generation) :
        /\ response.generation[i].difficulty \in DIFFICULTY_CHOICES
        /\ response.generation[i].num_questions \in 1..50
        /\ response.generation[i].subject # ""

\* C17: an upload whose extraction fails leaves the document stored without
\* text; a request for a document without text never reaches
\* generate_quiz_questions or the model, and create_quiz answers it with the
\* no-extractable-text message and creates no quiz.
C17_NoTextDocumentNeverGenerates ==
    /\ (response.view = "upload_pdf" /\ response.outcome = "extraction_failed") =>
          \E doc \in documents : doc.id = next_id.document - 1 /\ doc.text_content = None
    /\ \A i \in 1..Len(response.generation) : Truthy(response.generation[i].pdf_text)
    /\ response.outcome = "no_text" =>
          /\ response.calls = <<>>
          /\ response.generation = <<>>

\* C20: the questions of a quiz have the positions 1..n, each once; after a
\* generation that completed, the question at position i holds the i-th
\* draft the model returned.
C20_OrdinalsAreOneToN ==
    \A quiz \in quizzes :
        LET qs == QuestionsOf(quiz.id)
        IN /\ {q.order : q \in qs} = 1..Cardinality(qs)
           /\ (response.outcome = "completed" /\ response.quiz = quiz.id) =>
                 /\ Cardinality(qs) = Len(response.drafts)
                 /\ \A q \in qs :
                       LET q_data == response.drafts[q.order]
                       IN /\ q.correct_answer = ToText(Get(q_data, "correct_answer", JStr("A")))
                          /\ q.explanation = StoreText(Get(q_data, "explanation", JStr("")))
                          /\ q.option_b = ToText(Get(Get(q_data, "options", JObj(<<>>)), "B",
                                                     JStr("")))

\* two different drafts, stored in the order they came in
C20_Witness ==
    /\ response.outcome = "completed"
    /\ Len(response.drafts) = 2
    /\ response.drafts[1] # response.drafts[2]
    /\ \E q1, q2 \in QuestionsOf(response.quiz) :
          /\ q1.order = 1
          /\ q1.correct_answer = "E"
          /\ q2.order = 2
          /\ q2.correct_answer = "A"
          /\ q1.id < q2.id

----------------------------------------------------------------------------
(* Claims about the life of a quiz and of its results (Spec) *)

C19_SubmitAddsOneResult ==
    [][(response'.view = "submit_quiz" /\ response'.outcome \notin {"404", "redirect"})
           => /\ results \subseteq results'
              /\ Cardinality(results' \ results) = 1
              /\ \A r \in results' \ results :
                    /\ r.score = r.correct_answers
                    /\ \A o \in results : o.id # r.id]_vars

\* the second submission of a quiz: both Results are stored, with different
\* scores
C19_Witness ==
    /\ response.view = "submit_quiz"
    /\ response.outcome = "graded"
    /\ \E r1, r2 \in results :
          /\ r1.id < r2.id
          /\ r2.id = response.result
          /\ r1.user = r2.user
          /\ r1.quiz = r2.quiz
          /\ r1.score # r2.score

----------------------------------------------------------------------------
(* Claims about who reads what (SpecViews) *)

\* C16: what a view renders for a user who is not staff are rows of that
\* user: quizzes, the questions of quizzes, answers and results the user
\* owns.
C16_LearnerReadsOnlyOwnRows ==
    response.user \notin Staff =>
        /\ \A q \in quizzes : q.id \in response.shown.quizzes => q.user = response.user
        /\ \A x \in questions :
              x.id \in response.shown.questions =>
                  \E q \in quizzes : q.id = x.quiz /\ q.user = response.user
        /\ \A a \in answers : a.id \in response.shown.answers => a.user = response.user
        /\ \A r \in results : r.id \in response.shown.results => r.user = response.user

----------------------------------------------------------------------------
(* Claims about retries (SpecPipeline) *)

\* C18: a run of either pipeline invokes the model at most once; when the
\* model call fails the run ends with that failure after the one call.
C18_AtMostOneModelCall ==
    PipelineRan =>
        /\ Len(parse_out.out.calls) <= 1
        /\ (parse_out.model = "raise" /\ parse_out.out.calls # <<>>) =>
              /\ Len(parse_out.out.calls) = 1
              /\ parse_out.out.res = Raise("ModelCallError")

\* the model call of a generation failed: one call, the failure returned
C18_Witness ==
    /\ parse_out.fn = "generate_quiz_questions"
    /\ parse_out.model = "raise"
    /\ Len(parse_out.out.calls) = 1
    /\ parse_out.out.res.kind = "raise"
    /\ parse_out.out.res.exc = "ModelCallError"

----------------------------------------------------------------------------
(* C21 *)

\* C21: in every state, between the statements of concurrent submissions
\* included, every stored answer refers to a stored question and its
\* is_correct is TRUE exactly when its selected_answer is, character by
\* character, the correct_answer of that question
C21_IsCorrectIffExactMatch ==
    \A a \in answers :
        \E q \in questions :
            /\ q.id = a.question
            /\ a.is_correct <=> (a.selected_answer = q.correct_answer)

\* both requests have finished; one answer holds the correct label and is
\* marked correct, the other holds the same letter in lower case and is not
C21_Witness ==
    /\ AllDone
    /\ \E a \in answers : a.selected_answer = "A" /\ a.is_correct
    /\ \E a \in answers :
           /\ a.selected_answer = "a"
           /\ ~a.is_correct
           /\ \E q \in questions : q.id = a.question /\ q.correct_answer = "A"

----------------------------------------------------------------------------
(* C22 *)

\* the text a draft holds under key, or default when the key is missing
FieldOr(obj, key, default) == IF key \in DOMAIN obj.m THEN obj.m[key].s ELSE default

\* the option a draft holds under label: "" when the options object or the
\* label is missing
OptionOr(draft, label) ==
    IF "options" \in DOMAIN draft.m THEN FieldOr(draft.m["options"], label, "") ELSE ""

\* the question row is the draft with the defaults filled in
StoredWithDefaults(q, draft) ==
    /\ q.question_text = FieldOr(draft, "question", "")
    /\ q.option_a = OptionOr(draft, "A")
    /\ q.option_b = OptionOr(draft, "B")
    /\ q.option_c = OptionOr(draft, "C")
    /\ q.option_d = OptionOr(draft, "D")
    /\ q.correct_answer = FieldOr(draft, "correct_answer", "A")
    /\ q.explanation = FieldOr(draft, "explanation", "")

\* C22: a generation request whose model call returned a list of question
\* objects with fields missing ends with the quiz completed, and for every
\* position of the list exactly one question row of the quiz, holding the
\* object's fields with "" for a missing text, options object, option or
\* explanation and "A" for a missing correct_answer
C22_MissingFieldsAreDefaulted ==
    (response.view \in {"create_quiz", "create_quiz_from_topic"} /\ response.calls # <<>>)
        => /\ response.outcome = "completed"
           /\ Len(response.drafts) = 2
           /\ \E qz \in quizzes : qz.id = response.quiz /\ qz.is_completed
           /\ Cardinality({q \in questions : q.quiz = response.quiz}) = 2
           /\ \A i \in 1..2 :
                  \E q \in questions :
                      /\ q.quiz = response.quiz
                      /\ q.order = i
                      /\ StoredWithDefaults(q, response.drafts[i])

\* create_quiz was answered with an empty object followed by a complete
\* one: the first row holds only defaults, the second the complete question
C22_Witness ==
    /\ response.view = "create_quiz"
    /\ response.outcome = "completed"
    /\ response.drafts = <<AtomValue("q0"), AtomValue("qA")>>
    /\ \E q \in questions :
           /\ q.order = 1
           /\ q.question_text = "" /\ q.option_a = "" /\ q.option_d = ""
           /\ q.correct_answer = "A"
    /\ \E q \in questions :
           /\ q.order = 2
           /\ q.question_text = "Q" /\ q.option_d = "d" /\ q.correct_answer = "A"

----------------------------------------------------------------------------
(* C23 *)

FeedbackTriple(r) == <<r.strength_analysis, r.weakness_analysis, r.suggestions>>

\* C23: when the feedback step of a submission raised, the Result written
\* holds a fixed triple chosen by the kind of failure: the
\* service-not-configured text in all three fields after APIKeyError, the
\* keep-practicing triple after any other exception; the two triples differ
\* in each of the three fields
C23_FixedTriplePerFailureKind ==
    (response.view = "submit_quiz" /\ response.outcome = "graded" /\ response.error # "")
        => \E r \in results :
               /\ r.id = response.result
               /\ FeedbackTriple(r) =
                      IF response.error = "APIKeyError"
                      THEN <<"AI service not configured. Please contact administrator for detailed feedback.",
                             "AI service not configured. Please contact administrator for detailed feedback.",
                             "AI service not configured. Please contact administrator for detailed feedback.">>
                      ELSE <<"Keep practicing to improve your understanding.",
                             "Review the topics you got wrong.",
                             "Consider retaking the quiz after studying.">>
               /\ \A key \in FeedbackKeys : NotConfiguredFeedback[key] # KeepPracticingFeedback[key]

\* a submission under a configuration without a usable key was graded and
\* its Result holds the service-not-configured text
C23_Witness ==
    /\ response.view = "submit_quiz"
    /\ response.outcome = "graded"
    /\ response.error = "APIKeyError"
    /\ response.calls = <<>>
    /\ \E r \in results :
           /\ r.id = response.result
           /\ r.suggestions =
                  "AI service not configured. Please contact administrator for detailed feedback."

----------------------------------------------------------------------------
(* C24 *)

IncompleteQuizStored == \E q \in quizzes : ~q.is_completed

\* the request has finished and its quiz is completed, or is gone together
\* with its questions
EndedCompletedOrDeleted(r) ==
    \/ /\ inflight[r].outcome = "completed"
       /\ \E q \in quizzes : q.id = inflight[r].quiz /\ q.is_completed
    \/ /\ inflight[r].outcome = "generation_failed"
       /\ ~\E q \in quizzes : q.id = inflight[r].quiz
       /\ ~\E q \in questions : q.quiz = inflight[r].quiz

\* C24: whatever the model call does (return any text or raise), a
\* generation request that created its quiz reaches the end of the view;
\* when it has, the quiz is either completed or deleted and no quiz with
\* is_completed = FALSE is stored; so a stored incomplete quiz always leads
\* to a state without one
C24_QuizLeavesIncompleteState ==
    /\ [](\A r \in DOMAIN inflight :
              inflight[r].pc = "done" => (EndedCompletedOrDeleted(r) /\ ~IncompleteQuizStored))
    /\ \A r \in {"g1"} : (inflight[r].pc = "generate") ~> (inflight[r].pc = "done")
    /\ IncompleteQuizStored ~> ~IncompleteQuizStored

\* a request that saved one question, failed on the second and has ended
\* with its quiz deleted
C24_Witness ==
    /\ inflight["g1"].pc = "done"
    /\ inflight["g1"].outcome = "generation_failed"
    /\ inflight["g1"].error = "AttributeError"
    /\ next_id.question = 2
    /\ quizzes = {}
    /\ questions = {}

----------------------------------------------------------------------------
(* C28 *)

\* C28: every Result that a step adds belongs to a quiz that is completed:
\* a submit_quiz served while the generation of the quiz is still running
\* (is_completed = FALSE, none or some of its questions saved) adds none
C28_ResultOnlyForCompletedQuiz ==
    [][\A r \in results' \ results :
           \E q \in quizzes : q.id = r.quiz /\ q.is_completed]_vars

----------------------------------------------------------------------------
(* C25, C26 *)

\* C25: reject_user by an administrator on another user leaves that user
\* with profile status Rejected and is_active = FALSE, approve_user leaves
\* the user Approved and active, and user_login never logs in a user whose
\* profile status is Rejected
C25_RejectDeactivates ==
    [][/\ (response'.view = "reject_user" /\ response'.outcome = "rejected")
           => /\ accounts'[response'.user].status = "Rejected"
              /\ ~accounts'[response'.user].is_active
       /\ (response'.view = "approve_user" /\ response'.outcome = "approved")
           => /\ accounts'[response'.user].status = "Approved"
              /\ accounts'[response'.user].is_active
       /\ (response'.view = "user_login" /\ response'.outcome = "logged_in")
           => accounts[response'.user].status # "Rejected"]_vars

\* C26: a login view that puts a user into a session does it for the
\* right role only: user_login for a user with neither is_staff nor
\* is_superuser, admin_login for a user with at least one of the two,
\* whatever username and password were POSTed
C26_LoginRoleSeparation ==
    [][\A b \in Browsers :
           (session'[b].user # session[b].user /\ session'[b].user # "")
               => /\ response'.view \in {"user_login", "admin_login"}
                  /\ response'.view = "user_login"
                         => /\ ~accounts[session'[b].user].is_staff
                            /\ ~accounts[session'[b].user].is_superuser
                  /\ response'.view = "admin_login"
                         => \/ accounts[session'[b].user].is_staff
                            \/ accounts[session'[b].user].is_superuser]_vars

\* the learner is logged in in one browser; in the other, the account with
\* is_superuser alone has just logged in through admin_login
C26_Witness ==
    /\ response.view = "admin_login"
    /\ response.outcome = "logged_in"
    /\ session["b1"].user = "u1"
    /\ session["b2"].user = "root"
    /\ accounts["u1"].is_active

----------------------------------------------------------------------------
(* Result page specification: a learner with two stored quizzes submits *)
(* them and opens their result pages in any order.                      *)

\* the tables after u1 generated two one-question quizzes from one topic
TwoQuizzes ==
    LET d1 == PDFDocument_create(EmptyDb, "u1", "Topic", JStr("Topic"))
        d2 == Quiz_create(d1, "u1", 1, "Biology", "Easy", 1)
        s1 == Quiz_complete(save_questions(d2, 1, <<AtomValue("qA")>>, 1).db, 1)
        d3 == Quiz_create(s1, "u1", 1, "Biology", "Hard", 1)
    IN Quiz_complete(save_questions(d3, 2, <<AtomValue("qA")>>, 1).db, 2)

StoredQuizIds == {q.id : q \in TwoQuizzes.quizzes}

InitResults ==
    /\ documents = TwoQuizzes.documents
    /\ quizzes = TwoQuizzes.quizzes
    /\ questions = TwoQuizzes.questions
    /\ answers = TwoQuizzes.answers
    /\ results = TwoQuizzes.results
    /\ next_id = TwoQuizzes.next_id
    /\ settings = WorkingCredentials
    /\ response = Resp("none", "", "none")
    /\ last_selected = <<>>
    /\ raw_text = <<>>
    /\ parse_out = NotParsed
    /\ Idle

NextResults ==
    \/ \E user \in Users, quiz_id \in StoredQuizIds, model \in FeedbackModels :
           \E post \in [QuestionIds(quiz_id) -> Selections] :
               submit_quiz(user, quiz_id, "POST", post, model)
    \/ \E user \in Users, quiz_id \in StoredQuizIds :
           quiz_result(user, quiz_id)

SpecResults == InitResults /\ [][NextResults]_vars

----------------------------------------------------------------------------
(* Ownership specification: two learners, each with records of their own, *)
(* send the state-changing requests for their own records and for the     *)
(* other's.                                                               *)

\* the tables after each learner uploaded one readable document
TwoOwnersDocuments ==
    PDFDocument_create(PDFDocument_create(EmptyDb, "u1", "notes", JStr("pdf text")),
                       "u2", "notes", JStr("pdf text"))

\* the same after each learner generated a one-question quiz from it
TwoOwnersQuizzes ==
    LET d1 == Quiz_create(TwoOwnersDocuments, "u1", 1, "Biology", "Easy", 1)
        s1 == Quiz_complete(save_questions(d1, 1, <<AtomValue("qA")>>, 1).db, 1)
        d2 == Quiz_create(s1, "u2", 2, "Biology", "Easy", 1)
    IN Quiz_complete(save_questions(d2, 2, <<AtomValue("qA")>>, 1).db, 2)

\* the ids a request names: those of the two learners' records
OwnedIds == {doc.id : doc \in TwoOwnersDocuments.documents}

OwnershipModels == {ModelRaises, ModelSays(<<"[", "qA", "]">>)}

InitOwnership ==
    /\ \E t \in {TwoOwnersDocuments, TwoOwnersQuizzes} :
           /\ documents = t.documents
           /\ quizzes = t.quizzes
           /\ questions = t.questions
           /\ answers = t.answers
           /\ results = t.results
           /\ next_id = t.next_id
    /\ settings = WorkingCredentials
    /\ response = Resp("none", "", "none")
    /\ last_selected = <<>>
    /\ raw_text = <<>>
    /\ parse_out = NotParsed
    /\ Idle

NextOwnership ==
    \/ \E user \in Users, pdf_id \in OwnedIds, model \in OwnershipModels :
           create_quiz(user, pdf_id, "POST", "Biology", "Easy", "1", model)
    \/ \E user \in Users, quiz_id \in OwnedIds :
           \E post \in [QuestionIds(quiz_id) -> Selections] :
               submit_quiz(user, quiz_id, "POST", post, ModelRaises)
    \/ \E user \in Users, pdf_id \in OwnedIds : delete_pdf(user, pdf_id)
    \/ \E user \in Users, quiz_id \in OwnedIds : delete_quiz(user, quiz_id)

SpecOwnership == InitOwnership /\ [][NextOwnership]_vars

----------------------------------------------------------------------------
(* C27 *)

\* C27: after every graded submit_quiz, the Answer rows stored for the
\* learner and the quiz agree with the Result just written: as many rows
\* with is_correct = TRUE as its correct_answers and as many with
\* is_correct = FALSE as its wrong_answers, also when an earlier submission
\* answered a question that this one left unanswered
C27_StoredAnswersAgreeWithResult ==
    (response.view = "submit_quiz" /\ response.outcome = "graded") =>
        \A r \in results :
            r.id = response.result =>
                LET stored == {a \in answers : a.user = response.user
                                               /\ a.quiz = response.quiz}
                IN /\ Cardinality({a \in stored : a.is_correct}) = r.correct_answers
                   /\ Cardinality({a \in stored : ~a.is_correct}) = r.wrong_answers

----------------------------------------------------------------------------
(* C29 *)

\* C29: whenever a Result exists for the learner and the quiz, quiz_result
\* for that quiz displays a Result of that learner and that quiz, whatever
\* last_result_id the session held (an id left by an unviewed submission of
\* another quiz included), and the request leaves no last_result_id in the
\* session for a later quiz_result to use
C29_ResultPageShowsOwnResult ==
    (response.view = "quiz_result" /\ response.outcome # "404") =>
        /\ session[response.user].last_result_id = 0
        /\ (\E r \in results : r.user = response.user /\ r.quiz = response.quiz)
               => /\ response.outcome = "rendered"
                  /\ response.shown.results # {}
                  /\ \A r \in results :
                         r.id \in response.shown.results
                             => r.user = response.user /\ r.quiz = response.quiz

----------------------------------------------------------------------------
(* C30 *)

\* the Documents, Quizzes, Answers and Results of a learner and the
\* Questions of the learner's quizzes
RowsOf(owner) ==
    [documents |-> {x \in documents : x.user = owner},
     quizzes |-> {x \in quizzes : x.user = owner},
     questions |-> {x \in questions : \E q \in quizzes : q.id = x.quiz /\ q.user = owner},
     answers |-> {x \in answers : x.user = owner},
     results |-> {x \in results : x.user = owner}]

NamesOthersDocument(user, pdf_id) == \E x \in documents : x.id = pdf_id /\ x.user # user
NamesOthersQuiz(user, quiz_id) == \E x \in quizzes : x.id = quiz_id /\ x.user # user

\* C30: delete_quiz, delete_pdf, submit_quiz and create_quiz issued by one
\* learner never create, change or delete a Document, Quiz, Question,
\* Answer or Result of another learner, and such a request that names
\* another learner's record leaves the tables unchanged
C30_OwnerScopedWrites ==
    [][/\ response'.view \in {"delete_quiz", "delete_pdf", "submit_quiz", "create_quiz"}
           => \A other \in Users \ {response'.user} : RowsOf(other)' = RowsOf(other)
       /\ \A user \in Users, id \in OwnedIds :
              /\ (NamesOthersQuiz(user, id) /\ delete_quiz(user, id))
                     => UNCHANGED storage
              /\ (NamesOthersDocument(user, id) /\ delete_pdf(user, id))
                     => UNCHANGED storage
              /\ (NamesOthersQuiz(user, id)
                  /\ \E post \in [QuestionIds(id) -> Selections] :
                         submit_quiz(user, id, "POST", post, ModelRaises))
                     => UNCHANGED storage
              /\ (NamesOthersDocument(user, id)
                  /\ \E model \in OwnershipModels :
                         create_quiz(user, id, "POST", "Biology", "Easy", "1", model))
                     => UNCHANGED storage]_vars

\* both learners have a quiz with a stored answer and a Result, and u2's
\* request to delete a quiz, which was not for its own quiz 2, was answered
\* with 404
C30_Witness ==
    /\ response.view = "delete_quiz"
    /\ response.user = "u2"
    /\ response.outcome = "404"
    /\ \A u \in Users : /\ RowsOf(u).quizzes # {}
                        /\ RowsOf(u).answers # {}
                        /\ RowsOf(u).results # {}
    /\ \E q \in quizzes : q.id = 2 /\ q.user = "u2"
    /\ \E q \in quizzes : q.id = 1 /\ q.user = "u1"

====
